---- MODULE Spec2Model ----
(***************************************************************************)
(* A model of the CyberIDE Neural Core pipeline (package neural_cli):      *)
(*   - the health scorer        (metric_calculator.py, models.py)          *)
(*   - the regression detector  (regression_detector.py)                   *)
(*   - the file watcher         (file_watcher.py)                          *)
(*   - the test-run coordinator (main.py)                                  *)
(*                                                                         *)
(* Numbers.  The code computes with floats; the model computes with exact  *)
(* integers in fixed units:                                                *)
(*   coverage, documentation and integration scores : points (0..100)      *)
(*   module completion                              : thirds of a point    *)
(*   overall health                                 : 1/300 of a point     *)
(*   illumination                                   : 1/30000 (1.0=30000)  *)
(* Time is counted in ticks; the debounce window is DebounceWindow ticks.  *)
(***************************************************************************)
EXTENDS Integers, Sequences, FiniteSets, TLC

VARIABLES
    \* ---- scorer harness (calculate_neural_status as a pure function) ----
    sc_in,          \* the inputs of the last scoring call
    sc_out,         \* the NeuralStatus it returned (<<>> before any call)
    sc_metrics,     \* ghost: the ProjectMetrics it computed on the way
    \* ---- regression detector ----
    max_history,    \* RegressionDetector.max_history
    history_file,   \* content of neural_history.json
    saved,          \* ghost: the dumps written by successful save_snapshot calls
    hist_last,      \* ghost: what the last detector operation was and returned
    \* ---- file watcher ----
    now,            \* time.time(), in ticks
    last_event_time,\* NeuralFileHandler.last_event_time
    observed,       \* ghost: every raw file-system event handed to the handler
    delivered,      \* ghost: every FileChangeEvent passed to the callback
    observer,       \* FileWatcher.observer: "alive", "stopped" (None), "dead"
    ignored_patterns,   \* NeuralFileHandler.ignored_patterns
    on_change_callback, \* what the downstream callback does: "returns", "raises"
    last_pattern_call,  \* ghost: the last add/remove call made for a pattern
    lifecycle,          \* ghost: the start()/stop() calls made on the watcher
    \* ---- coordinator ----
    test_running,   \* NeuralCore.test_running
    current_status, \* NeuralCore.current_status
    status_file,    \* content of neural_status.json
    pc,             \* position of each run_tests_and_update invocation
    origin,         \* ghost: who started each invocation
    requests,       \* ghost: number of requests and file changes handled
    last_response,  \* ghost: the answer given to the last of them
    published,      \* ghost: the last message handed to broadcast
    runner_calls,   \* ghost: number of test_analyzer.run_tests() invocations
    \* ---- status file harness (load_status / update_neural_status) ----
    status_io,      \* ghost: the last load or save of the harness
    \* ---- broadcast ----
    connected_clients,  \* NeuralCore.connected_clients
    broadcast_call,     \* the position and locals of the broadcast call
    \* ---- metrics manager (backend/cto/metrics/manager.py) ----
    metrics_manager     \* the MetricsManager, its worker and its stop() call

scoreVars == <<sc_in, sc_out, sc_metrics>>
histVars  == <<max_history, history_file, saved, hist_last>>
watchVars == <<now, last_event_time, observed, delivered, observer,
               ignored_patterns, on_change_callback, last_pattern_call,
               lifecycle>>
coordVars == <<test_running, current_status, status_file, pc, origin,
               requests, last_response, published, runner_calls, status_io,
               connected_clients, broadcast_call>>
vars == <<sc_in, sc_out, sc_metrics, max_history, history_file, saved, hist_last,
          now, last_event_time, observed, delivered, observer,
          ignored_patterns, on_change_callback, last_pattern_call,
          lifecycle,
          test_running, current_status, status_file, pc, origin,
          requests, last_response, published, runner_calls, status_io,
          connected_clients, broadcast_call, metrics_manager>>
metricsVars == <<metrics_manager>>

Min(a, b) == IF a < b THEN a ELSE b
Max(a, b) == IF a > b THEN a ELSE b

(***************************************************************************)
(* models.py                                                               *)
(***************************************************************************)
HEALTHY == "healthy"
WARNING == "warning"
ERROR   == "error"
OFFLINE == "offline"
RegionStatus == {HEALTHY, WARNING, ERROR, OFFLINE}

CAUTION == "CAUTION"
ALERT   == "ALERT"

\* 1.0 of illumination, and 100 points of health, in model units
IllumOne  == 100 * 300
HealthMax == 100 * 300

\* BrainRegion.validate_coverage: clamp to [0, 100]
validate_coverage_unclamped(v) == v
validate_coverage(v) ==
    IF v < 0 THEN 0 ELSE IF v > 100 THEN 100 ELSE v

\* NeuralStatus.validate_illumination: clamp to [0.0, 1.0]
validate_illumination_unclamped(v) == v
validate_illumination(v) ==
    IF v < 0 THEN 0 ELSE IF v > IllumOne THEN IllumOne ELSE v

\* ProjectMetrics.validate_percentage: clamp to [0, 100] (hi = 100 in the
\* unit of the field)
validate_percentage(v, hi) ==
    IF v < 0 THEN 0 ELSE IF v > hi THEN hi ELSE v

\* BrainRegion(...): the coverage validator runs on construction
BrainRegion(status, coverage, test_count, passing, failing, file_count) ==
    [status        |-> status,
     coverage      |-> validate_coverage(coverage),
     test_count    |-> test_count,
     passing_tests |-> passing,
     failing_tests |-> failing,
     file_count    |-> file_count]

\* NeuralStatus(...): the illumination validator runs on construction
NeuralStatus(illumination, regions, diagnostics, lic, readme, doc, api, mcp) ==
    [illumination           |-> validate_illumination(illumination),
     regions                |-> regions,
     diagnostics            |-> diagnostics,
     has_license            |-> lic,
     has_readme             |-> readme,
     documentation_complete |-> doc,
     api_configured         |-> api,
     mcp_providers_count    |-> mcp]

EmptyRegions == [r \in {} |-> 0]

\* NeuralStatus(): every field at its default
DefaultStatus ==
    NeuralStatus(0, EmptyRegions, <<>>, FALSE, FALSE, FALSE, FALSE, 0)

\* model_dump(mode='json') followed by json.dump / json.load: the dict a
\* status becomes in a file.  Enum members are written as their values and
\* the dict carries a marker of its JSON type.
ModelDump(s) ==
    [json                   |-> "object",
     illumination           |-> s.illumination,
     regions                |-> s.regions,
     diagnostics            |-> s.diagnostics,
     has_license            |-> s.has_license,
     has_readme             |-> s.has_readme,
     documentation_complete |-> s.documentation_complete,
     api_configured         |-> s.api_configured,
     mcp_providers_count    |-> s.mcp_providers_count]

(***************************************************************************)
(* Files.  A JSON file is missing, unparseable ("corrupt": this covers an  *)
(* empty file), or holds a JSON value: the data of a file of kind "value"  *)
(* is the one-element sequence holding it.                                 *)
(***************************************************************************)
MissingFile   == [kind |-> "missing", data |-> <<>>]
CorruptFile   == [kind |-> "corrupt", data |-> <<>>]
ValueFile(v)  == [kind |-> "value",   data |-> <<v>>]
\* a parseable file whose top-level value is not of the expected JSON type
OtherJsonFile == [kind |-> "other",   data |-> <<>>]

(***************************************************************************)
(* metric_calculator.py                                                    *)
(***************************************************************************)
\* self.weights, in hundredths
W_test_coverage     == 35
W_documentation    == 15
W_module_completion == 25
W_integration      == 15
\* the bonus of _calculate_illumination, in points
ProductionReadyBonus == 10

RegionNames == {"ui-components", "core-logic", "data-layer", "tests",
                "documentation", "api-integration"}

\* _check_file_exists("LICENSE") etc. are fields of the probe fs.

\* _calculate_documentation_score, in points
calculate_documentation_score(fs) ==
    Min( (IF fs.readme /\ fs.readme_big THEN 30 ELSE 0)
       + (IF fs.license \/ fs.license_md THEN 20 ELSE 0)
       + (IF fs.claude_md THEN 20 ELSE 0)
       + (IF fs.api_docs THEN 15 ELSE 0)
       + (IF fs.setup_md \/ fs.quickstart_md THEN 15 ELSE 0), 100)

\* _calculate_module_completion, in thirds of a point:
\* (existing_configs / 3) * 20 points = 20 * existing_configs thirds
calculate_module_completion(fc, fs) ==
    Min( (IF fc.frontend > 0 THEN 3 * 25 ELSE 0)
       + (IF fc.backend > 0 THEN 3 * 25 ELSE 0)
       + (IF fc.tests > 0 THEN 3 * 30 ELSE 0)
       + 20 * fs.configs, 3 * 100)

\* _check_api_configured: environment, then .env, then the api_configured
\* flag of the persisted neural_status.json
check_api_configured_no_file(fs, sfile) ==
    fs.env_api \/ fs.dotenv_api
check_api_configured(fs, sfile) ==
    IF fs.env_api THEN TRUE
    ELSE IF fs.dotenv_api THEN TRUE
    ELSE IF sfile.kind = "value" THEN sfile.data[1].api_configured
    ELSE FALSE

\* _count_mcp_providers
count_mcp_providers(fs) == fs.providers

\* _calculate_integration_score, in points
calculate_integration_score(fs, sfile) ==
    Min( (IF check_api_configured(fs, sfile) THEN 50 ELSE 0)
       + (IF count_mcp_providers(fs) > 0
             THEN Min(count_mcp_providers(fs) * 15, 50) ELSE 0), 100)

RECURSIVE SumOver(_, _)
SumOver(f, S) ==
    IF S = {} THEN 0
    ELSE LET x == CHOOSE y \in S : TRUE IN f[x] + SumOver(f, S \ {x})

\* _check_production_ready: reads the persisted neural_status.json
check_production_ready_any_tests(sfile) ==
    IF sfile.kind = "value"
    THEN LET regs == sfile.data[1].regions IN
         SumOver([r \in DOMAIN regs |-> regs[r].test_count], DOMAIN regs) > 0
    ELSE FALSE
check_production_ready(sfile) ==
    IF sfile.kind = "value"
    THEN LET regs == sfile.data[1].regions IN
         IF \E r \in DOMAIN regs : regs[r].failing_tests > 0 THEN FALSE
         ELSE SumOver([r \in DOMAIN regs |-> regs[r].test_count],
                      DOMAIN regs) > 0
    ELSE FALSE

\* _calculate_metrics: the sub-scores and their weighted sum, each passed
\* through ProjectMetrics.validate_percentage
calculate_metrics(cov, tr, fc, fs, sfile) ==
    LET doc   == calculate_documentation_score(fs)
        mod3  == calculate_module_completion(fc, fs)
        integ == calculate_integration_score(fs, sfile)
        overall == W_test_coverage * 3 * cov + W_documentation * 3 * doc
                 + W_module_completion * mod3 + W_integration * 3 * integ
    IN [total_files         |-> fc.frontend + fc.backend + fc.tests + fc.data,
        test_coverage       |-> validate_percentage(cov, 100),
        documentation_score |-> validate_percentage(doc, 100),
        module_completion   |-> validate_percentage(mod3, 3 * 100),
        integration_score   |-> validate_percentage(integ, 100),
        overall_health      |-> validate_percentage(overall, HealthMax)]

\* _calculate_illumination: (overall_health [+ 10]) / 100, capped at 1.0
calculate_illumination_nobonus(metrics, sfile) ==
    Min(metrics.overall_health, IllumOne)
calculate_illumination(metrics, sfile) ==
    Min(metrics.overall_health
        + (IF check_production_ready(sfile)
              THEN ProductionReadyBonus * 300 ELSE 0), IllumOne)

\* _determine_region_status
determine_region_status_coverage_first(cov, tr) ==
    IF cov < 50 THEN WARNING
    ELSE IF tr.failed > 0 THEN ERROR
    ELSE HEALTHY
determine_region_status(cov, tr) ==
    IF tr.failed > 0 THEN ERROR
    ELSE IF cov < 50 THEN WARNING
    ELSE HEALTHY

\* _create_regions
create_regions(tr, fc, cov, fs, sfile) ==
    LET doc   == calculate_documentation_score(fs)
        integ == calculate_integration_score(fs, sfile)
    IN [r \in RegionNames |->
        CASE r = "ui-components" ->
               BrainRegion(determine_region_status(cov, tr),
                           IF fc.frontend > 0 THEN cov ELSE 0,
                           tr.total, tr.passed, tr.failed, fc.frontend)
          [] r = "core-logic" ->
               BrainRegion(determine_region_status(cov, tr),
                           IF fc.backend > 0 THEN cov ELSE 0,
                           tr.total, tr.passed, tr.failed, fc.backend)
          [] r = "data-layer" ->
               BrainRegion(IF fc.data > 0 THEN HEALTHY ELSE OFFLINE,
                           IF fc.data > 0 THEN cov ELSE 0,
                           tr.total, tr.passed, tr.failed, fc.data)
          [] r = "tests" ->
               BrainRegion(determine_region_status(cov, tr), cov,
                           tr.total, tr.passed, tr.failed, fc.tests)
          [] r = "documentation" ->
               BrainRegion(IF doc >= 80 THEN HEALTHY ELSE WARNING, doc,
                           0, 0, 0, fs.md_count)
          [] r = "api-integration" ->
               BrainRegion(IF integ >= 50 THEN HEALTHY ELSE OFFLINE, integ,
                           0, 0, 0, count_mcp_providers(fs))]

Diagnostic(level, region, text, n) ==
    [level |-> level, region |-> region, message |-> [text |-> text, n |-> n]]

\* _generate_diagnostics
generate_diagnostics_inclusive(metrics, tr) ==
      (IF tr.failed > 0
         THEN <<Diagnostic(ALERT, "tests", "ALERT: n test(s) failing",
                           tr.failed)>> ELSE <<>>)
   \o (IF metrics.test_coverage <= 50
         THEN <<Diagnostic(CAUTION, "tests", "CAUTION: Low test coverage",
                           metrics.test_coverage)>> ELSE <<>>)
   \o (IF metrics.documentation_score <= 60
         THEN <<Diagnostic(CAUTION, "documentation",
                           "CAUTION: Incomplete documentation", 0)>>
         ELSE <<>>)
   \o (IF metrics.integration_score <= 30
         THEN <<Diagnostic(CAUTION, "integration",
                           "CAUTION: API/MCP not configured", 0)>>
         ELSE <<>>)
generate_diagnostics(metrics, tr) ==
      (IF tr.failed > 0
         THEN <<Diagnostic(ALERT, "tests", "ALERT: n test(s) failing",
                           tr.failed)>> ELSE <<>>)
   \o (IF metrics.test_coverage < 50
         THEN <<Diagnostic(CAUTION, "tests", "CAUTION: Low test coverage",
                           metrics.test_coverage)>> ELSE <<>>)
   \o (IF metrics.documentation_score < 60
         THEN <<Diagnostic(CAUTION, "documentation",
                           "CAUTION: Incomplete documentation", 0)>>
         ELSE <<>>)
   \o (IF metrics.integration_score < 30
         THEN <<Diagnostic(CAUTION, "integration",
                           "CAUTION: API/MCP not configured", 0)>>
         ELSE <<>>)

\* calculate_neural_status
calculate_neural_status(cov, tr, fc, fs, sfile) ==
    LET metrics == calculate_metrics(cov, tr, fc, fs, sfile) IN
    NeuralStatus(calculate_illumination(metrics, sfile),
                 create_regions(tr, fc, cov, fs, sfile),
                 generate_diagnostics(metrics, tr),
                 fs.license,
                 fs.readme,
                 metrics.documentation_score >= 80,
                 check_api_configured(fs, sfile),
                 count_mcp_providers(fs))

(***************************************************************************)
(* Inputs of the scorer                                                    *)
(***************************************************************************)
\* largest number of configured MCP providers considered
MaxProviders == 4

\* raw coverage values, including values outside [0, 100]
CoverageInputs == {0 - 10, 0, 49, 50, 85, 100, 150}

TestResults(passed, failed, total) ==
    [passed |-> passed, failed |-> failed, total |-> total]
TestResultInputs ==
    {TestResults(0, 0, 0), TestResults(10, 0, 10), TestResults(8, 2, 10)}

FileCounts(f, b, t, d) ==
    [frontend |-> f, backend |-> b, tests |-> t, data |-> d]
FileCountInputs ==
    {FileCounts(0, 0, 0, 0), FileCounts(0, 4, 3, 1), FileCounts(5, 4, 3, 2)}

\* the documentation files found in the project root
Docs(readme, big, lic, licmd, claude, api, setup, quick) ==
    [readme |-> readme, readme_big |-> big, license |-> lic,
     license_md |-> licmd, claude_md |-> claude, api_docs |-> api,
     setup_md |-> setup, quickstart_md |-> quick]
DocInputs ==
    {Docs(FALSE, FALSE, FALSE, FALSE, FALSE, FALSE, FALSE, FALSE),
     Docs(TRUE,  FALSE, FALSE, TRUE,  FALSE, FALSE, FALSE, FALSE),
     Docs(TRUE,  TRUE,  TRUE,  FALSE, FALSE, FALSE, FALSE, TRUE),
     Docs(TRUE,  TRUE,  TRUE,  FALSE, TRUE,  TRUE,  FALSE, FALSE),
     Docs(TRUE,  TRUE,  TRUE,  FALSE, TRUE,  TRUE,  TRUE,  FALSE)}

\* where the API configuration is found, if anywhere
ApiInputs == {"none", "env", "dotenv"}

Probe(docs, configs, api, providers) ==
    [readme |-> docs.readme, readme_big |-> docs.readme_big,
     license |-> docs.license, license_md |-> docs.license_md,
     claude_md |-> docs.claude_md, api_docs |-> docs.api_docs,
     setup_md |-> docs.setup_md, quickstart_md |-> docs.quickstart_md,
     md_count |-> (IF docs.readme THEN 1 ELSE 0)
               + (IF docs.license_md THEN 1 ELSE 0)
               + (IF docs.claude_md THEN 1 ELSE 0)
               + (IF docs.setup_md THEN 1 ELSE 0)
               + (IF docs.quickstart_md THEN 1 ELSE 0),
     configs |-> configs,
     env_api |-> (api = "env"), dotenv_api |-> (api = "dotenv"),
     providers |-> providers]

\* number of entries of config_files in _calculate_module_completion
ConfigFiles == 3

\* statuses a previous cycle may have persisted
ReadyStatus ==
    calculate_neural_status(85, TestResults(10, 0, 10),
        FileCounts(5, 4, 3, 2),
        Probe(Docs(TRUE, TRUE, TRUE, FALSE, TRUE, TRUE, TRUE, FALSE),
              ConfigFiles, "env", 2),
        MissingFile)
FailingStatus ==
    calculate_neural_status(49, TestResults(8, 2, 10),
        FileCounts(0, 4, 3, 1),
        Probe(Docs(TRUE, TRUE, FALSE, FALSE, FALSE, FALSE, FALSE, FALSE),
              1, "none", 0),
        MissingFile)
StatusFileInputs ==
    {MissingFile, CorruptFile, ValueFile(ModelDump(ReadyStatus)),
     ValueFile(ModelDump(FailingStatus))}

(***************************************************************************)
(* The scorer as a pure function: one call on inputs drawn from the sets   *)
(* above.                                                                  *)
(***************************************************************************)
ScoreIdle == sc_in = <<>> /\ sc_out = <<>> /\ sc_metrics = <<>>

ScoreInit ==
    /\ \E cov \in CoverageInputs, tr \in TestResultInputs,
          fc \in FileCountInputs, docs \in DocInputs,
          configs \in 0..ConfigFiles, api \in ApiInputs,
          providers \in 0..MaxProviders, sfile \in StatusFileInputs :
           sc_in = <<[cov |-> cov, tr |-> tr, fc |-> fc,
                      fs |-> Probe(docs, configs, api, providers),
                      sfile |-> sfile]>>
    /\ sc_out = <<>>
    /\ sc_metrics = <<>>

\* calculate_neural_status is called on the inputs
Score ==
    /\ sc_out = <<>>
    /\ sc_out' = <<calculate_neural_status(sc_in[1].cov, sc_in[1].tr,
                       sc_in[1].fc, sc_in[1].fs, sc_in[1].sfile)>>
    /\ sc_metrics' = <<calculate_metrics(sc_in[1].cov, sc_in[1].tr,
                           sc_in[1].fc, sc_in[1].fs, sc_in[1].sfile)>>
    /\ UNCHANGED sc_in

\* the next scoring cycle: the status just computed has been written to
\* neural_status.json by save_status, and calculate_neural_status is called
\* again with the same test outcome, file counts and project files
ScoreAgain ==
    /\ Len(sc_out) = 1
    /\ sc_out' = Append(sc_out,
                    calculate_neural_status(sc_in[1].cov, sc_in[1].tr,
                        sc_in[1].fc, sc_in[1].fs,
                        ValueFile(ModelDump(sc_out[1]))))
    /\ sc_metrics' = Append(sc_metrics,
                        calculate_metrics(sc_in[1].cov, sc_in[1].tr,
                            sc_in[1].fc, sc_in[1].fs,
                            ValueFile(ModelDump(sc_out[1]))))
    /\ UNCHANGED sc_in

(***************************************************************************)
(* regression_detector.py                                                  *)
(***************************************************************************)
\* self.thresholds, in model units
T_illumination_drop     == IllumOne \div 10
T_illumination_critical == IllumOne \div 5
T_region_coverage_drop  == 10
T_minor_coverage_drop   == 2

\* insertion order of the regions dict built by _create_regions
RegionOrder == <<"ui-components", "core-logic", "data-layer", "tests",
                 "documentation", "api-integration">>

\* seq[start:] of Python, for any integer start
PySliceFrom(seq, start) ==
    LET n == Len(seq)
        i == IF start < 0 THEN Max(n + start, 0) ELSE Min(start, n)
    IN SubSeq(seq, i + 1, n)

\* _load_history: a missing, unparseable or non-list file is an empty history
load_history(file) ==
    IF file.kind = "value" THEN file.data[1] ELSE <<>>

RegressionAlert(metric, old, new, severity, region) ==
    [metric |-> metric, old_value |-> old, new_value |-> new,
     severity |-> severity, region |-> region]

\* _check_illumination_regression
check_illumination_regression_inclusive(current, last_data) ==
    LET drop == last_data.illumination - current.illumination IN
    IF drop >= T_illumination_drop
    THEN <<RegressionAlert("illumination", last_data.illumination,
                           current.illumination,
                           IF drop >= T_illumination_critical
                              THEN "critical" ELSE "moderate",
                           "overall")>>
    ELSE <<>>
check_illumination_regression(current, last_data) ==
    LET drop == last_data.illumination - current.illumination IN
    IF drop > T_illumination_drop
    THEN <<RegressionAlert("illumination", last_data.illumination,
                           current.illumination,
                           IF drop > T_illumination_critical
                              THEN "critical" ELSE "moderate",
                           "overall")>>
    ELSE <<>>

\* status_hierarchy of _is_status_worse
StatusLevel(st) ==
    CASE st = HEALTHY -> 3
      [] st = WARNING -> 2
      [] st = ERROR   -> 1
      [] OTHER        -> 0

\* _is_status_worse
is_status_worse_unranked(current_status_, last_status) ==
    current_status_ # last_status
is_status_worse_offline_exempt(current_status_, last_status) ==
    /\ current_status_ # OFFLINE
    /\ StatusLevel(current_status_) < StatusLevel(last_status)
is_status_worse_or_equal(current_status_, last_status) ==
    StatusLevel(current_status_) <= StatusLevel(last_status)
is_status_worse(current_status_, last_status) ==
    StatusLevel(current_status_) < StatusLevel(last_status)

\* the body of the loop of _check_region_regressions for one region
region_regressions_inclusive(name, region, last_region) ==
    LET drop == last_region.coverage - region.coverage IN
       (IF drop >= T_region_coverage_drop
          THEN <<RegressionAlert("coverage", last_region.coverage,
                                 region.coverage, "moderate", name)>>
        ELSE IF drop >= T_minor_coverage_drop
          THEN <<RegressionAlert("coverage", last_region.coverage,
                                 region.coverage, "minor", name)>>
        ELSE <<>>)
    \o (IF is_status_worse(region.status, last_region.status)
          THEN <<RegressionAlert("status", 0, 1, "moderate", name)>>
        ELSE <<>>)
region_regressions(name, region, last_region) ==
    LET drop == last_region.coverage - region.coverage IN
       (IF drop > T_region_coverage_drop
          THEN <<RegressionAlert("coverage", last_region.coverage,
                                 region.coverage, "moderate", name)>>
        ELSE IF drop > T_minor_coverage_drop
          THEN <<RegressionAlert("coverage", last_region.coverage,
                                 region.coverage, "minor", name)>>
        ELSE <<>>)
    \o (IF is_status_worse(region.status, last_region.status)
          THEN <<RegressionAlert("status", 0, 1, "moderate", name)>>
        ELSE <<>>)

\* the body of the loop of _check_test_regressions for one region
test_regressions_above_threshold(name, region, last_region) ==
    IF region.failing_tests - last_region.failing_tests > 1
    THEN <<RegressionAlert("failing_tests", last_region.failing_tests,
                           region.failing_tests, "critical", name)>>
    ELSE <<>>
test_regressions_any_change(name, region, last_region) ==
    IF region.failing_tests # last_region.failing_tests
    THEN <<RegressionAlert("failing_tests", last_region.failing_tests,
                           region.failing_tests, "critical", name)>>
    ELSE <<>>
test_regressions(name, region, last_region) ==
    IF region.failing_tests > last_region.failing_tests
    THEN <<RegressionAlert("failing_tests", last_region.failing_tests,
                           region.failing_tests, "critical", name)>>
    ELSE <<>>

\* for region_name, region in current.regions.items(): skip the regions the
\* last snapshot does not have, collect the alerts of the others
RECURSIVE OverRegions(_, _, _, _)
OverRegions(Body(_, _, _), current, last_data, i) ==
    IF i > Len(RegionOrder) THEN <<>>
    ELSE LET name == RegionOrder[i] IN
         (IF name \in DOMAIN current.regions
             /\ name \in DOMAIN last_data.regions
          THEN Body(name, current.regions[name], last_data.regions[name])
          ELSE <<>>)
         \o OverRegions(Body, current, last_data, i + 1)

check_region_regressions(current, last_data) ==
    OverRegions(region_regressions, current, last_data, 1)

check_test_regressions(current, last_data) ==
    OverRegions(test_regressions, current, last_data, 1)

\* (detect_regressions without its "if not history" guard: history[-1]
\* raises IndexError on an empty history)
detect_regressions_unguarded(current, file) ==
    LET history == load_history(file) IN
    IF history = <<>> THEN [raised |-> TRUE, alerts |-> <<>>]
    ELSE LET last_data == history[Len(history)] IN
         IF last_data.json # "object"
         THEN [raised |-> TRUE, alerts |-> <<>>]
         ELSE [raised |-> FALSE,
               alerts |-> check_illumination_regression(current, last_data)
                       \o check_region_regressions(current, last_data)
                       \o check_test_regressions(current, last_data)]

\* detect_regressions: [raised, alerts].  The checks call .get on the last
\* history entry, which raises when that entry is not a JSON object.
detect_regressions(current, file) ==
    LET history == load_history(file) IN
    IF history = <<>> THEN [raised |-> FALSE, alerts |-> <<>>]
    ELSE LET last_data == history[Len(history)] IN
         IF last_data.json # "object"
         THEN [raised |-> TRUE, alerts |-> <<>>]
         ELSE [raised |-> FALSE,
               alerts |-> check_illumination_regression(current, last_data)
                       \o check_region_regressions(current, last_data)
                       \o check_test_regressions(current, last_data)]

\* save_snapshot up to the write: the list handed to json.dump
snapshot_history_keep_first(status, file, maxh) ==
    LET history == Append(load_history(file), ModelDump(status)) IN
    IF Len(history) > maxh THEN SubSeq(history, 1, maxh) ELSE history
snapshot_history(status, file, maxh) ==
    LET history == Append(load_history(file), ModelDump(status)) IN
    IF Len(history) > maxh THEN PySliceFrom(history, 0 - maxh) ELSE history

\* the loop of get_trend over history[i..]: the values of the metric, read
\* from the region of each snapshot when a region is given ("" stands for
\* None) and from the top level of the snapshot otherwise; a snapshot
\* without the region or without the key is skipped
RECURSIVE trend_values(_, _, _, _)
trend_values(history, metric, region, i) ==
    IF i > Len(history) THEN <<>>
    ELSE LET snapshot == history[i] IN
         (IF region # ""
          THEN IF region \in DOMAIN snapshot.regions
                  /\ metric \in DOMAIN snapshot.regions[region]
               THEN <<snapshot.regions[region][metric]>> ELSE <<>>
          ELSE IF metric \in DOMAIN snapshot
               THEN <<snapshot[metric]>> ELSE <<>>)
         \o trend_values(history, metric, region, i + 1)

\* threshold of get_trend in the unit of the metric: 0.05, and 5.0 for
\* "coverage"
trend_threshold(metric) ==
    IF metric = "coverage" THEN 5 ELSE IllumOne \div 20

\* the comparison of get_trend
trend_of_adjacent(values, threshold) ==
    LET delta == values[Len(values)] - values[Len(values) - 1] IN
    IF delta > threshold THEN "improving"
    ELSE IF delta < 0 - threshold THEN "degrading"
    ELSE "stable"
trend_of(values, threshold) ==
    LET delta == values[Len(values)] - values[1] IN
    IF delta > threshold THEN "improving"
    ELSE IF delta < 0 - threshold THEN "degrading"
    ELSE "stable"

\* get_trend: [raised, trend].  snapshot.get raises when a snapshot is not a
\* JSON object.
get_trend(metric, region, file) ==
    LET history == load_history(file) IN
    IF Len(history) < 3 THEN [raised |-> FALSE, trend |-> "stable"]
    ELSE IF \E i \in 1..Len(history) : history[i].json # "object"
    THEN [raised |-> TRUE, trend |-> "none"]
    ELSE LET values == trend_values(history, metric, region, 1) IN
         IF Len(values) < 3 THEN [raised |-> FALSE, trend |-> "stable"]
         ELSE [raised |-> FALSE,
               trend |-> trend_of(values, trend_threshold(metric))]

(***************************************************************************)
(* The regression detector as a state machine over neural_history.json     *)
(***************************************************************************)
\* largest max_history considered
MaxHistory == 2
\* largest number of save_snapshot calls considered
MaxSaves == 3

\* a status with the single region "tests"
TestsOnly(illum, cov, st, failing) ==
    NeuralStatus(illum,
                 [r \in {"tests"} |->
                     BrainRegion(st, cov, 10, 10 - failing, failing, 3)],
                 <<>>, TRUE, TRUE, FALSE, FALSE, 0)

\* hundredths of illumination in model units
Pct(n) == n * 300

BaselineStatus  == TestsOnly(Pct(85), 85, HEALTHY, 0)
RegressedStatus == TestsOnly(Pct(70), 70, WARNING, 2)

\* the statuses that get saved
SnapshotPool == {BaselineStatus, RegressedStatus, ReadyStatus}

\* the statuses that get compared against the history
CurrentInputs ==
    SnapshotPool \cup {DefaultStatus, FailingStatus}
    \cup {TestsOnly(Pct(75), 85, HEALTHY, 0), TestsOnly(Pct(65), 85, HEALTHY, 0)}
    \cup {TestsOnly(Pct(85), c, HEALTHY, 0) : c \in {74, 75, 82, 83}}
    \cup {TestsOnly(Pct(85), 85, HEALTHY, 1)}
    \cup {TestsOnly(Pct(i), c, st, f) :
             i \in {70, 85}, c \in {70, 85},
             st \in RegionStatus, f \in {0, 2, 3}}

\* a list entry that is valid JSON but not an object
NonObjectEntry == [ModelDump(DefaultStatus) EXCEPT !.json = "other"]

RECURSIVE Repeat(_, _)
Repeat(x, n) == IF n = 0 THEN <<>> ELSE <<x>> \o Repeat(x, n - 1)

\* what neural_history.json may hold when the detector is created
InitialHistoryFiles ==
    {MissingFile, CorruptFile, OtherJsonFile, ValueFile(<<>>),
     ValueFile(<<NonObjectEntry>>),
     ValueFile(<<ModelDump(BaselineStatus)>>),
     ValueFile(<<ModelDump(FailingStatus)>>),
     ValueFile(Repeat(ModelDump(RegressedStatus), MaxHistory + 1))}

NoOp == [op |-> "none", current |-> <<>>, alerts |-> <<>>,
         raised |-> FALSE, outcome |-> "none"]

\* max_history: int = 10, the default of RegressionDetector.__init__
DefaultMaxHistory == 10

HistIdle ==
    /\ max_history = DefaultMaxHistory
    /\ history_file = MissingFile
    /\ saved = [dumps |-> <<>>, calls |-> 0, all_ok |-> TRUE,
                from_empty |-> TRUE]
    /\ hist_last = NoOp

HistInit ==
    /\ max_history \in 0..MaxHistory
    /\ history_file \in InitialHistoryFiles
    /\ saved = [dumps |-> <<>>, calls |-> 0, all_ok |-> TRUE,
                from_empty |-> (load_history(history_file) = <<>>)]
    /\ hist_last = NoOp

\* save_snapshot(status).  The write either succeeds, or open() fails and
\* the file keeps its content, or the write fails after open() truncated the
\* file; the exception is caught in both cases.
SaveSnapshotOf(pool, outcomes, calls) ==
    \E status \in pool, outcome \in outcomes :
        /\ saved.calls < calls
        /\ history_file' =
             CASE outcome = "ok" ->
                    ValueFile(snapshot_history(status, history_file,
                                               max_history))
               [] outcome = "open_fails" -> history_file
               [] OTHER -> CorruptFile
        /\ saved' = [dumps |-> IF outcome = "ok"
                                  THEN Append(saved.dumps, ModelDump(status))
                                  ELSE saved.dumps,
                     calls |-> saved.calls + 1,
                     all_ok |-> saved.all_ok /\ outcome = "ok",
                     from_empty |-> saved.from_empty]
        /\ hist_last' = [op |-> "save", current |-> <<status>>,
                         alerts |-> <<>>, raised |-> FALSE,
                         outcome |-> outcome]
        /\ UNCHANGED max_history

SaveSnapshot ==
    SaveSnapshotOf(SnapshotPool, {"ok", "open_fails", "write_fails"}, MaxSaves)

\* detect_regressions(current)
DetectRegressions ==
    \E current \in CurrentInputs :
        LET res == detect_regressions(current, history_file) IN
        \* the call changes no file: a second call in a row sees the same
        \* history, so the model makes one call per history
        /\ hist_last.op # "detect"
        /\ hist_last' = [op |-> "detect", current |-> <<current>>,
                         alerts |-> res.alerts, raised |-> res.raised,
                         outcome |-> "none"]
        /\ UNCHANGED <<max_history, history_file, saved>>

\* largest number of snapshots saved before a trend is asked for
MaxTrendSaves == 5

\* a status of illumination pct/100 whose region "ui-components" has
\* coverage pct
TrendStatus(pct) ==
    NeuralStatus(Pct(pct),
                 [r \in {"ui-components"} |->
                     BrainRegion(HEALTHY, pct, 0, 0, 0, 0)],
                 <<>>, FALSE, FALSE, FALSE, FALSE, 0)
TrendPool == {TrendStatus(pct) : pct \in {50, 55, 60, 70, 80, 90}}

\* the detector is created with a window of 3 snapshots or with the
\* default window, over no history or over a list holding a non-object
TrendInit ==
    /\ max_history \in {3, DefaultMaxHistory}
    /\ history_file \in {MissingFile, ValueFile(<<NonObjectEntry>>)}
    /\ saved = [dumps |-> <<>>, calls |-> 0, all_ok |-> TRUE,
                from_empty |-> (load_history(history_file) = <<>>)]
    /\ hist_last = NoOp

\* save_snapshot of a status of the pool, written successfully
SaveTrendSnapshot == SaveSnapshotOf(TrendPool, {"ok"}, MaxTrendSaves)

\* get_trend(metric, region)
GetTrend ==
    \E metric \in {"illumination", "coverage"},
       region \in {"", "ui-components"} :
        LET res == get_trend(metric, region, history_file) IN
        \* the call changes no file: one call per history
        /\ hist_last.op # "trend"
        /\ hist_last' = [op |-> "trend",
                         current |-> <<[metric |-> metric,
                                        region |-> region]>>,
                         alerts |-> <<>>, raised |-> res.raised,
                         outcome |-> res.trend]
        /\ UNCHANGED <<max_history, history_file, saved>>

(***************************************************************************)
(* file_watcher.py: NeuralFileHandler                                      *)
(***************************************************************************)
\* debounce_seconds=1.0 passed by FileWatcher.start, in ticks of half a
\* second
DebounceWindow == 2
\* largest number of raw events considered
MaxEvents == 3
\* time.time() when the handler is created, and the last instant considered
StartTime == 10 * DebounceWindow
EndTime   == StartTime + 2 * DebounceWindow

\* a path: its parts (Path.parts) and its suffix (Path.suffix)
PathOf(parts, suffix) == [parts |-> parts, suffix |-> suffix]
Name(path) == path.parts[Len(path.parts)]
AppPy    == PathOf(<<"src", "app.py">>, ".py")
TestPy   == PathOf(<<"tests", "test_app.py">>, ".py")
CachePyc == PathOf(<<"src", "__pycache__", "app.pyc">>, ".pyc")
SrcDir   == PathOf(<<"src", "components">>, "")
Paths == {AppPy, TestPy, CachePyc, SrcDir}
\* the paths that are directories
Directories == {SrcDir}

\* an ignore pattern: "*.ext" (ext = TRUE, text = ".ext") or a name
Pattern(ext, text) == [ext |-> ext, text |-> text]
DefaultIgnoredPatterns ==
    {Pattern(FALSE, ".git"), Pattern(FALSE, ".pytest_cache"),
     Pattern(FALSE, "__pycache__"), Pattern(FALSE, "node_modules"),
     Pattern(FALSE, ".coverage"), Pattern(FALSE, ".venv"),
     Pattern(FALSE, "venv"), Pattern(FALSE, ".DS_Store"),
     Pattern(TRUE, ".pyc"), Pattern(TRUE, ".pyo"), Pattern(TRUE, ".pyd"),
     Pattern(FALSE, ".mypy_cache"), Pattern(FALSE, ".ruff_cache"),
     Pattern(FALSE, "dist"), Pattern(FALSE, "build"), Pattern(TRUE, ".log")}

\* should_ignore
should_ignore_never(path, patterns) == FALSE
should_ignore(path, patterns) ==
    \E pat \in patterns :
        IF pat.ext THEN path.suffix = pat.text
        ELSE \/ \E i \in 1..Len(path.parts) : path.parts[i] = pat.text
             \/ Name(path) = pat.text

\* _is_test_file
is_test_file(path) ==
    /\ Name(path) \in {"test_app.py"}      \* the names starting with "test_"
    /\ path.suffix = ".py"
    /\ \E i \in 1..Len(path.parts) : path.parts[i] = "tests"

\* should_debounce: the test of line 97; self.last_event_time.get(path, 0)
should_debounce_never(path) == FALSE
should_debounce(path) ==
    now - last_event_time[path] < DebounceWindow

FileChangeEvent(kind, path) ==
    [event_type |-> kind, file_path |-> path,
     is_test_file |-> is_test_file(path), at |-> now]

RawEvent(kind, path) ==
    [kind |-> kind, path |-> path, is_directory |-> path \in Directories,
     at |-> now]

\* the pattern that add_ignored_pattern / remove_ignored_pattern are called
\* with
MutablePatterns == {Pattern(FALSE, "tests")}

\* the record of the lifecycle calls: how many were made, which was the
\* last, how many Observer objects start() has created and started (the
\* number of the current observer and handler, while there is one), and
\* whether a call raised, and how many events had been observed when the
\* current handler was created
Lifecycle(calls, last, observers, raised, events_before) ==
    [calls |-> calls, last |-> last, observers |-> observers,
     raised |-> raised, events_before |-> events_before]
Started == Lifecycle(1, "start", 1, FALSE, 0)

\* FileWatcher.start() has created the handler and started the observer
WatchIdle ==
    /\ now = StartTime
    /\ last_event_time = [p \in Paths |-> 0]
    /\ observed = <<>>
    /\ delivered = <<>>
    /\ observer = "alive"
    /\ ignored_patterns = DefaultIgnoredPatterns
    /\ on_change_callback = "returns"
    /\ last_pattern_call = [q \in MutablePatterns |-> "none"]
    /\ lifecycle = Started

\* the same, with a downstream callback that raises on every call
WatchFailingCallback ==
    /\ now = StartTime
    /\ last_event_time = [p \in Paths |-> 0]
    /\ observed = <<>>
    /\ delivered = <<>>
    /\ observer = "alive"
    /\ ignored_patterns = DefaultIgnoredPatterns
    /\ on_change_callback = "raises"
    /\ last_pattern_call = [q \in MutablePatterns |-> "none"]
    /\ lifecycle = Started

\* the try/except of _handle_event: whether an exception raised by the
\* callback leaves the handler (and ends the observer thread)
callback_error_uncaught(raised) == raised
callback_error_propagates(raised) == FALSE

\* _handle_event: the callback is called with the event
handle_event_prepend(ev) ==
    /\ delivered' = <<ev>> \o delivered
    /\ observer' = observer
handle_event(ev) ==
    /\ delivered' = Append(delivered, ev)
    /\ observer' =
          IF callback_error_propagates(on_change_callback = "raises")
          THEN "dead" ELSE observer

\* on_created / on_modified: directory events and ignored paths return
\* early, then should_debounce either suppresses the event or records its
\* time, and the event is delivered
OnWrite(kind, path) ==
    /\ observer = "alive"
    /\ Len(observed) < MaxEvents
    /\ observed' = Append(observed, RawEvent(kind, path))
    /\ IF path \in Directories \/ should_ignore(path, ignored_patterns)
       THEN UNCHANGED <<last_event_time, delivered, observer>>
       ELSE IF should_debounce(path)
       THEN UNCHANGED <<last_event_time, delivered, observer>>
       ELSE /\ last_event_time' = [last_event_time EXCEPT ![path] = now]
            /\ handle_event(FileChangeEvent(kind, path))
    /\ UNCHANGED <<now, ignored_patterns, on_change_callback,
                   last_pattern_call, lifecycle>>

OnCreated == \E path \in {AppPy, SrcDir} : OnWrite("created", path)

OnModified == \E path \in {AppPy, TestPy, CachePyc} : OnWrite("modified", path)

\* on_deleted / on_moved: directory events and ignored paths return early;
\* should_debounce is not consulted
OnUndebounced(kind, path) ==
    /\ observer = "alive"
    /\ Len(observed) < MaxEvents
    /\ observed' = Append(observed, RawEvent(kind, path))
    /\ IF path \in Directories \/ should_ignore(path, ignored_patterns)
       THEN UNCHANGED <<delivered, observer>>
       ELSE handle_event(FileChangeEvent(kind, path))
    /\ UNCHANGED <<now, last_event_time, ignored_patterns,
                   on_change_callback, last_pattern_call, lifecycle>>

OnDeleted == \E path \in {AppPy, TestPy, SrcDir} : OnUndebounced("deleted", path)

\* on_moved looks at event.dest_path only
OnMoved == \E dest \in {AppPy, CachePyc} : OnUndebounced("moved", dest)

\* time passes while the observer runs
Tick ==
    /\ observer = "alive"
    /\ now < EndTime
    /\ now' = now + 1
    /\ UNCHANGED <<last_event_time, observed, delivered, observer,
                   ignored_patterns, on_change_callback, last_pattern_call,
                   lifecycle>>

\* largest number of start() and stop() calls considered
MaxLifecycleCalls == 4

\* FileWatcher.__init__: observer and handler are None
WatchConstructed ==
    /\ now = StartTime
    /\ last_event_time = [p \in Paths |-> 0]
    /\ observed = <<>>
    /\ delivered = <<>>
    /\ observer = "stopped"
    /\ ignored_patterns = DefaultIgnoredPatterns
    /\ on_change_callback = "returns"
    /\ last_pattern_call = [q \in MutablePatterns |-> "none"]
    /\ lifecycle = Lifecycle(0, "none", 0, FALSE, 0)

\* the test of line 229: self.observer is not None
already_running_never(obs) == FALSE
already_running(obs) == obs # "stopped"

\* is_running: self.observer is not None and self.observer.is_alive()
is_running == observer = "alive"

\* FileWatcher.start: returns at once when there is an observer; otherwise
\* a new handler (default patterns, no event times) and a new observer are
\* created and the observer is started
StartKeepingHandler ==
    /\ lifecycle.calls < MaxLifecycleCalls
    /\ lifecycle' = Lifecycle(lifecycle.calls + 1, "start",
                              IF already_running(observer)
                                 THEN lifecycle.observers
                                 ELSE lifecycle.observers + 1,
                              FALSE, lifecycle.events_before)
    /\ observer' = "alive"
    /\ UNCHANGED <<now, observed, delivered, on_change_callback,
                   last_event_time, ignored_patterns, last_pattern_call>>
Start ==
    /\ lifecycle.calls < MaxLifecycleCalls
    /\ IF already_running(observer)
       THEN /\ lifecycle' = Lifecycle(lifecycle.calls + 1, "start",
                                      lifecycle.observers, FALSE,
                                      lifecycle.events_before)
            /\ UNCHANGED <<observer, last_event_time, ignored_patterns,
                           last_pattern_call>>
       ELSE /\ lifecycle' = Lifecycle(lifecycle.calls + 1, "start",
                                      lifecycle.observers + 1, FALSE,
                                      Len(observed))
            /\ observer' = "alive"
            /\ last_event_time' = [p \in Paths |-> 0]
            /\ ignored_patterns' = DefaultIgnoredPatterns
            /\ last_pattern_call' = [q \in MutablePatterns |-> "none"]
    /\ UNCHANGED <<now, observed, delivered, on_change_callback>>

\* FileWatcher.stop: returns at once when observer is None; otherwise the
\* observer is stopped and joined, observer and handler are set to None.
\* Nothing is delivered: a debounced event was dropped when it was
\* observed, the handler keeps no pending event.
Stop ==
    /\ lifecycle.calls < MaxLifecycleCalls
    /\ lifecycle' = Lifecycle(lifecycle.calls + 1, "stop",
                              lifecycle.observers, FALSE,
                              lifecycle.events_before)
    /\ observer' = "stopped"
    /\ UNCHANGED <<now, last_event_time, observed, delivered,
                   ignored_patterns, on_change_callback, last_pattern_call>>

\* the test of lines 307 and 320: self.handler is None.  start() and
\* stop() set observer and handler together.
handler_is_none(obs) == obs = "stopped"

\* add_ignored_pattern / remove_ignored_pattern on the handler's set
add_ignored_pattern(patterns, pattern) == patterns \cup {pattern}
remove_ignored_pattern_noop(patterns, pattern) == patterns
remove_ignored_pattern(patterns, pattern) == patterns \ {pattern}

\* FileWatcher.add_ignored_pattern: returns at once when the handler is
\* None
AddIgnoredPattern ==
    \E pattern \in MutablePatterns :
        /\ IF handler_is_none(observer)
           THEN /\ last_pattern_call' =
                     [last_pattern_call EXCEPT ![pattern] = "add_returned"]
                /\ UNCHANGED ignored_patterns
           ELSE /\ ignored_patterns' =
                     add_ignored_pattern(ignored_patterns, pattern)
                /\ last_pattern_call' =
                     [last_pattern_call EXCEPT ![pattern] = "add"]
        /\ UNCHANGED <<now, last_event_time, observed, delivered, observer,
                       on_change_callback, lifecycle>>

\* FileWatcher.remove_ignored_pattern: returns at once when the handler is
\* None
RemoveIgnoredPattern ==
    \E pattern \in MutablePatterns :
        /\ IF handler_is_none(observer)
           THEN /\ last_pattern_call' =
                     [last_pattern_call EXCEPT ![pattern] = "remove_returned"]
                /\ UNCHANGED ignored_patterns
           ELSE /\ ignored_patterns' =
                     remove_ignored_pattern(ignored_patterns, pattern)
                /\ last_pattern_call' =
                     [last_pattern_call EXCEPT ![pattern] = "remove"]
        /\ UNCHANGED <<now, last_event_time, observed, delivered, observer,
                       on_change_callback, lifecycle>>

(***************************************************************************)
(* main.py: NeuralCore and the run_tests_and_update cycle                  *)
(*                                                                         *)
(* Every coroutine runs on the one event loop: a step of the model is the  *)
(* code a coroutine executes between two suspension points.  The phase of  *)
(* pc[Lifespan] is the phase of the application ("init", "starting",      *)
(* "serving"); pc[t] for t in Tasks is the position of the t-th           *)
(* invocation of run_tests_and_update.                                     *)
(***************************************************************************)
\* main.py imports the analyzer and its result as TestAnalyzer and
\* TestResult; test_analyzer.py and models.py define them as PytestAnalyzer
\* and PytestRunResult.  The model binds the two names to those classes.

\* largest number of run_tests_and_update invocations considered
MaxTasks == 3
\* largest number of requests (POST, WebSocket, file change) considered
MaxRequests == 2

Tasks == 1..MaxTasks
\* the index of the lifespan coroutine in pc
Lifespan == 0

\* inside the try block of run_tests_and_update
InRun == {"runner", "bcast_status", "bcast_result"}
Done  == {"done_ok", "done_raised", "done_skipped"}

\* what test_analyzer.run_tests() may return: coverage and counts
PytestRunResult(cov, passed, failed, total) ==
    [coverage_percentage |-> cov, passed |-> passed, failed |-> failed,
     total_tests |-> total]
RunnerResults ==
    {PytestRunResult(85, 10, 0, 10), PytestRunResult(49, 8, 2, 10)}

\* the project the server runs in
ProjectProbe ==
    Probe(Docs(TRUE, TRUE, TRUE, FALSE, TRUE, FALSE, FALSE, FALSE),
          2, "none", 1)

\* count_files_by_region: neural_status.json counts as a data file
count_files_by_region(sfile) ==
    FileCounts(5, 4, 3, 1 + (IF sfile.kind = "missing" THEN 0 ELSE 1))

\* NeuralStatus(**data) on the dict read from neural_status.json
StatusFromDump(d) ==
    NeuralStatus(d.illumination, d.regions, d.diagnostics, d.has_license,
                 d.has_readme, d.documentation_complete, d.api_configured,
                 d.mcp_providers_count)

\* load_status
load_status(sfile) ==
    IF sfile.kind = "value" THEN StatusFromDump(sfile.data[1])
    ELSE DefaultStatus

\* the try/except of load_status: whether an exception raised while the
\* file is read, parsed and validated leaves load_status
load_status_uncaught(sfile) == sfile.kind \in {"corrupt", "other"}
load_status_raises(sfile) == FALSE

\* save_status: the file after the call, for each outcome of the write
save_status(status, sfile, outcome) ==
    CASE outcome = "ok"         -> ValueFile(ModelDump(status))
      [] outcome = "open_fails" -> sfile
      [] OTHER                  -> CorruptFile

WriteOutcomes == {"ok", "open_fails", "write_fails"}

Response(req, answer) == [req |-> req, answer |-> answer, path |-> <<>>]
\* the record of a file change handled: the path of the event
FileResponse(path) == [req |-> "file", answer |-> 0, path |-> <<path>>]
\* WebSocketMessage(type, data)
Message(type, data) == [type |-> type, data |-> data]
Answer(r) == requests' = requests + 1 /\ last_response' = r

\* the record of a load_status or save_status call of the harness: which
\* it was, whether it raised, how the write went, and the status that the
\* last write that succeeded put in the file (none after a write that
\* failed half-way), and whether neural_status.json has at some time held a
\* status with api_configured = true
StatusIo(op, raised, outcome, written, api_persisted) ==
    [op |-> op, raised |-> raised, outcome |-> outcome, written |-> written,
     api_persisted |-> api_persisted]
NoStatusIo == StatusIo("none", FALSE, "none", <<>>, FALSE)

\* neural_status.json holds a status with api_configured = true
ApiFlagInFile(sfile) ==
    sfile.kind = "value" /\ sfile.data[1].api_configured

\* a call of broadcast: where it is ("none", "sending": suspended in
\* await client.send_json, "returned", "raised"), the client being sent to,
\* the state of the iterator of the for loop (the clients it has yielded
\* and the size of the set when it was created), the local set
\* disconnected, and as ghosts the clients connected when the call began
\* and those whose send_json returned
BroadcastCall(phase, client, yielded, size, disconnected, initial, received) ==
    [phase |-> phase, client |-> client, yielded |-> yielded, size |-> size,
     disconnected |-> disconnected, initial |-> initial,
     received |-> received]
NoBroadcast == BroadcastCall("none", 0, {}, 0, {}, {}, {})

CoordIdle ==
    /\ test_running = FALSE
    /\ current_status = <<>>
    /\ status_file = MissingFile
    /\ pc = [t \in {Lifespan} \cup Tasks |-> IF t = Lifespan THEN "init"
                                                ELSE "unused"]
    /\ origin = [t \in Tasks |-> "none"]
    /\ requests = 0
    /\ last_response = Response("none", 0)
    /\ published = Message("none", <<>>)
    /\ runner_calls = 0
    /\ status_io = NoStatusIo
    /\ connected_clients = {}
    /\ broadcast_call = NoBroadcast

\* NeuralCore() has been constructed; neural_status.json is whatever an
\* earlier process left
CoordInit ==
    /\ test_running = FALSE
    /\ current_status = <<>>
    /\ status_file \in {MissingFile, CorruptFile,
                        ValueFile(ModelDump(ReadyStatus))}
    /\ pc = [t \in {Lifespan} \cup Tasks |-> IF t = Lifespan THEN "init"
                                                ELSE "unused"]
    /\ origin = [t \in Tasks |-> "none"]
    /\ requests = 0
    /\ last_response = Response("none", 0)
    /\ published = Message("none", <<>>)
    /\ runner_calls = 0
    /\ status_io = NoStatusIo
    /\ connected_clients = {}
    /\ broadcast_call = NoBroadcast

\* subprocess.run blocks the event-loop thread: while a task is inside
\* test_analyzer.run_tests() no other coroutine makes a step
LoopFree == \A t \in Tasks : pc[t] # "runner"

Unused == {t \in Tasks : pc[t] = "unused"}
NextTask == CHOOSE t \in Unused : \A u \in Unused : t <= u

\* the test of line 547 (and of line 313)
AlreadyRunningNever == FALSE
AlreadyRunning == test_running

\* the value the finally clause leaves in test_running, after a cycle that
\* raised or not
FlagAfterCycleKeptOnError(raised) == raised
FlagAfterCycle(raised) == FALSE

\* run_tests_and_update from its first line to the call of run_tests()
Enter(t) ==
    IF AlreadyRunning
    THEN /\ pc' = [pc EXCEPT ![t] = "done_skipped"]
         /\ UNCHANGED <<test_running, runner_calls>>
    ELSE /\ test_running' = TRUE
         /\ pc' = [pc EXCEPT ![t] = "runner"]
         /\ runner_calls' = runner_calls + 1

\* lifespan, startup: load_status, then perform_initial_scan awaits
\* run_tests_and_update
LifespanStartup ==
    /\ pc[Lifespan] = "init"
    /\ current_status' = <<load_status(status_file)>>
    /\ pc' = [pc EXCEPT ![Lifespan] = "starting", ![1] = "pending"]
    /\ origin' = [origin EXCEPT ![1] = "scan"]
    /\ UNCHANGED <<test_running, status_file, requests, last_response,
                   published, runner_calls>>

\* lifespan reaches its yield once the initial scan has returned: the
\* watcher is started and the server accepts requests
LifespanServing ==
    /\ pc[Lifespan] = "starting"
    /\ pc[1] \in Done
    /\ pc' = [pc EXCEPT ![Lifespan] = "serving"]
    /\ UNCHANGED <<test_running, current_status, status_file, origin,
                   requests, last_response, published, runner_calls>>

\* a task created by asyncio.create_task, or the awaited initial scan,
\* starts executing run_tests_and_update
StartTask ==
    \E t \in Tasks :
        /\ pc[t] = "pending"
        /\ LoopFree
        /\ Enter(t)
        /\ UNCHANGED <<current_status, status_file, origin, requests,
                       last_response, published>>

\* POST /tests/run
PostTestsRun ==
    /\ pc[Lifespan] = "serving"
    /\ LoopFree
    /\ requests < MaxRequests
    /\ IF AlreadyRunning
       THEN /\ Answer(Response("post", 409))
            /\ UNCHANGED <<pc, origin>>
       ELSE /\ Unused # {}
            /\ pc' = [pc EXCEPT ![NextTask] = "pending"]
            /\ origin' = [origin EXCEPT ![NextTask] = "post"]
            /\ Answer(Response("post", 200))
    /\ UNCHANGED <<test_running, current_status, status_file, published,
                   runner_calls>>

\* WebSocket command "run_tests": the handler awaits run_tests_and_update
\* itself, and sends nothing back
WsRunTests ==
    /\ pc[Lifespan] = "serving"
    /\ LoopFree
    /\ requests < MaxRequests
    /\ Unused # {}
    /\ origin' = [origin EXCEPT ![NextTask] = "ws"]
    /\ Answer(Response("ws", 0))
    /\ Enter(NextTask)
    /\ UNCHANGED <<current_status, status_file, published>>

\* paths of the project outside src/: a backend module, a file of tests/
\* that is not a test file, and a documentation file of the project root
BackendPy  == PathOf(<<"neural_cli", "main.py">>, ".py")
ConftestPy == PathOf(<<"tests", "conftest.py">>, ".py")
ReadmeMd   == PathOf(<<"README.md">>, ".md")
ChangedPaths == {AppPy, TestPy, BackendPy, ConftestPy, ReadmeMd}

\* PytestAnalyzer.should_run_tests: a test file, or a path under
\* project_root/src or project_root/neural_cli
should_run_tests(path) ==
    \/ is_test_file(path)
    \/ path.parts[1] = "src"
    \/ path.parts[1] = "neural_cli"

\* asyncio.create_task called from the watchdog observer thread: that
\* thread has no running event loop, the call raises RuntimeError
create_task_raises == TRUE

\* handle_file_change(event), called by _handle_event on the watchdog
\* thread.  Its first statement is the create_task of the file_change
\* broadcast; when that raises, the handler is left and _handle_event
\* catches the exception.  Otherwise should_run_tests decides whether a
\* second task, run_tests_and_update, is created.
FileChange(path) ==
    /\ pc[Lifespan] = "serving"
    /\ requests < MaxRequests
    /\ Answer(FileResponse(path))
    /\ IF create_task_raises
       THEN UNCHANGED <<pc, origin, published>>
       ELSE /\ published' = Message("file_change", <<path>>)
            /\ IF should_run_tests(path) /\ Unused # {}
               THEN /\ pc' = [pc EXCEPT ![NextTask] = "pending"]
                    /\ origin' = [origin EXCEPT ![NextTask] = "file"]
               ELSE UNCHANGED <<pc, origin>>
    /\ UNCHANGED <<test_running, current_status, status_file,
                   runner_calls>>

\* a change of a source file
FileChangeTrigger == FileChange(AppPy)

\* a change of any file of the project
FileChangeAny == \E path \in ChangedPaths : FileChange(path)

\* lifespan after its yield: the watcher and the Git pulse engine are
\* stopped and the current status is saved.  Nothing is done about a run in
\* flight; last_response records which invocation, if any, was inside its
\* run.
LifespanShutdown ==
    /\ pc[Lifespan] = "serving"
    /\ LoopFree
    /\ \E wr \in WriteOutcomes :
          status_file' = save_status(current_status[1], status_file, wr)
    /\ pc' = [pc EXCEPT ![Lifespan] = "stopped"]
    /\ last_response' =
          Response("shutdown",
                   IF \E t \in Tasks : pc[t] \in InRun
                   THEN CHOOSE t \in Tasks : pc[t] \in InRun ELSE 0)
    /\ UNCHANGED <<test_running, current_status, origin, requests,
                   published, runner_calls>>

\* the end of a cycle: the except clause swallows the exception, the
\* finally clause sets the flag
Finish(t, raised) ==
    /\ test_running' = FlagAfterCycle(raised)
    /\ pc' = [pc EXCEPT ![t] = IF raised THEN "done_raised" ELSE "done_ok"]

\* run_tests() returns (or raises) and update_neural_status runs up to its
\* broadcast: the status is recomputed and saved
RunnerReturns ==
    \E t \in Tasks :
        /\ pc[t] = "runner"
        /\ \/ \E result \in RunnerResults, wr \in WriteOutcomes :
                LET st == calculate_neural_status(
                              result.coverage_percentage,
                              TestResults(result.passed, result.failed,
                                          result.total_tests),
                              count_files_by_region(status_file),
                              ProjectProbe, status_file)
                IN /\ current_status' = <<st>>
                   /\ status_file' = save_status(st, status_file, wr)
                   /\ pc' = [pc EXCEPT ![t] = "bcast_status"]
                   /\ published' = Message("neural_status", <<st>>)
                   /\ UNCHANGED test_running
           \/ \* run_tests or the recomputation raised
              /\ Finish(t, TRUE)
              /\ UNCHANGED <<current_status, status_file, published>>
        /\ UNCHANGED <<origin, requests, last_response, runner_calls>>

\* the broadcast of the status returns (or raises), the broadcast of the
\* test result begins
StatusBroadcastEnds ==
    \E t \in Tasks :
        /\ pc[t] = "bcast_status"
        /\ LoopFree
        /\ \/ /\ pc' = [pc EXCEPT ![t] = "bcast_result"]
              /\ published' = Message("test_result", <<>>)
              /\ UNCHANGED test_running
           \/ /\ Finish(t, TRUE)
              /\ UNCHANGED published
        /\ UNCHANGED <<current_status, status_file, origin, requests,
                       last_response, runner_calls>>

\* the broadcast of the test result returns (or raises); the cycle ends
ResultBroadcastEnds ==
    \E t \in Tasks, raised \in BOOLEAN :
        /\ pc[t] = "bcast_result"
        /\ LoopFree
        /\ Finish(t, raised)
        /\ UNCHANGED <<current_status, status_file, origin, requests,
                       last_response, published, runner_calls>>

(***************************************************************************)
(* main.py: neural_status.json across load_status and the recomputations   *)
(* of update_neural_status                                                 *)
(***************************************************************************)
\* largest number of load_status and update_neural_status calls considered
MaxStatusOps == 3

\* NeuralCore() has been constructed; neural_status.json is whatever an
\* earlier process left
StatusFileInit ==
    /\ test_running = FALSE
    /\ current_status = <<>>
    /\ status_file \in {MissingFile, CorruptFile, OtherJsonFile,
                        ValueFile(ModelDump(ReadyStatus))}
    /\ pc = [t \in {Lifespan} \cup Tasks |-> IF t = Lifespan THEN "init"
                                                ELSE "unused"]
    /\ origin = [t \in Tasks |-> "none"]
    /\ requests = 0
    /\ last_response = Response("none", 0)
    /\ published = Message("none", <<>>)
    /\ runner_calls = 0
    /\ status_io = StatusIo("none", FALSE, "none", <<>>,
                            ApiFlagInFile(status_file))
    /\ connected_clients = {}
    /\ broadcast_call = NoBroadcast

\* neural_core.current_status = neural_core.load_status()  (line 126)
LoadStatus ==
    /\ requests < MaxStatusOps
    /\ requests' = requests + 1
    /\ current_status' = <<load_status(status_file)>>
    /\ status_io' = StatusIo("load", load_status_raises(status_file), "none",
                             status_io.written, status_io.api_persisted)
    /\ UNCHANGED <<test_running, status_file, pc, origin, last_response,
                   published, runner_calls>>

\* update_neural_status(test_result) up to its broadcast: the status is
\* recomputed and save_status is called
UpdateNeuralStatus ==
    \E result \in RunnerResults, wr \in WriteOutcomes :
        LET st == calculate_neural_status(
                      result.coverage_percentage,
                      TestResults(result.passed, result.failed,
                                  result.total_tests),
                      count_files_by_region(status_file),
                      ProjectProbe, status_file)
        IN /\ requests < MaxStatusOps
           /\ requests' = requests + 1
           /\ current_status' = <<st>>
           /\ status_file' = save_status(st, status_file, wr)
           /\ published' = Message("neural_status", <<st>>)
           /\ status_io' = StatusIo("save", FALSE, wr,
                                    CASE wr = "ok" -> <<st>>
                                      [] wr = "open_fails" -> status_io.written
                                      [] OTHER -> <<>>,
                                    \/ status_io.api_persisted
                                    \/ wr = "ok" /\ st.api_configured)
           /\ UNCHANGED <<test_running, pc, origin, last_response,
                          runner_calls>>

(***************************************************************************)
(* main.py: NeuralCore.broadcast and the WebSocket endpoint                *)
(*                                                                         *)
(* broadcast is suspended at each await client.send_json; the endpoint     *)
(* coroutines of the clients run in between.                               *)
(***************************************************************************)
\* largest number of WebSocket clients considered
MaxClients == 3
Clients == 1..MaxClients

\* the server is up with some clients connected
BroadcastInit ==
    /\ test_running = FALSE
    /\ current_status = <<>>
    /\ status_file = MissingFile
    /\ pc = [t \in {Lifespan} \cup Tasks |-> IF t = Lifespan THEN "serving"
                                                ELSE "unused"]
    /\ origin = [t \in Tasks |-> "none"]
    /\ requests = 0
    /\ last_response = Response("none", 0)
    /\ published = Message("none", <<>>)
    /\ runner_calls = 0
    /\ status_io = NoStatusIo
    /\ connected_clients \in SUBSET Clients
    /\ broadcast_call = NoBroadcast

\* next() on the iterator of "for client in self.connected_clients": a set
\* iterator raises RuntimeError when the size of the set is not the size it
\* had when the iterator was created; otherwise it yields a client not yet
\* yielded, or ends the loop, after which the clients of disconnected are
\* removed and broadcast returns.  (After a change that left the size as it
\* was, the iterator is taken to yield the members it has not yielded.)
ForNextClient(call) ==
    IF Cardinality(connected_clients) # call.size
    THEN /\ broadcast_call' = [call EXCEPT !.phase = "raised", !.client = 0]
         /\ connected_clients' = connected_clients
    ELSE \/ \E c \in connected_clients \ call.yielded :
              /\ broadcast_call' =
                    [call EXCEPT !.phase = "sending", !.client = c,
                                 !.yielded = call.yielded \cup {c}]
              /\ connected_clients' = connected_clients
         \/ /\ connected_clients \ call.yielded = {}
            /\ broadcast_call' =
                  [call EXCEPT !.phase = "returned", !.client = 0]
            /\ connected_clients' = connected_clients \ call.disconnected

\* broadcast(message) from its first line to the first await
BroadcastBegins ==
    /\ broadcast_call.phase = "none"
    /\ ForNextClient(BroadcastCall("iterating", 0, {},
                                   Cardinality(connected_clients), {},
                                   connected_clients, {}))

\* await client.send_json(...) returns or raises, and the loop goes on to
\* the next await or to the end of broadcast
SendEnds ==
    /\ broadcast_call.phase = "sending"
    /\ \E sent \in BOOLEAN :
          ForNextClient(
              [broadcast_call EXCEPT
                  !.received = IF sent THEN @ \cup {broadcast_call.client}
                                      ELSE @,
                  !.disconnected = IF sent THEN @
                                   ELSE @ \cup {broadcast_call.client}])

\* websocket_endpoint up to its first await after accept(): the client is
\* added to connected_clients
ClientConnects ==
    \E c \in Clients \ connected_clients :
        /\ broadcast_call.phase \in {"none", "sending"}
        /\ connected_clients' = connected_clients \cup {c}
        /\ UNCHANGED broadcast_call

\* the finally clause of websocket_endpoint: the client is discarded
ClientDisconnects ==
    \E c \in connected_clients :
        /\ broadcast_call.phase \in {"none", "sending"}
        /\ connected_clients' = connected_clients \ {c}
        /\ UNCHANGED broadcast_call

(***************************************************************************)
(* backend/cto/metrics/manager.py: MetricsManager                          *)
(*                                                                         *)
(* The queue is modelled by the number of records in it.  A step is the    *)
(* code a coroutine executes between two awaits; the await of a flush is   *)
(* the write of the batch (_write_batch).                                  *)
(***************************************************************************)
\* largest number of record_operation calls considered
MaxMetrics == 4
\* largest max_batch_size considered
MaxBatchSize == 2
\* max_batch_size: int = 1000, the default of MetricsManager.__init__
DefaultMaxBatchSize == 1000

\* the manager: its parameters and fields, the position of the background
\* worker ("waiting": in wait_for(shutdown_event.wait(), flush_interval);
\* "writing", "final_writing": in the write of a batch; "done") with the
\* size of the batch it is writing, and the position of the stop() call
\* ("none", "waiting": in wait_for(worker_task, timeout); "writing";
\* "returned") with the size of the batch it is writing
Manager(batch, running, shutdown, queue, recorded, persisted, worker, wbatch, stop, sbatch) ==
    [max_batch_size |-> batch, is_running |-> running,
     shutdown_event |-> shutdown, queue |-> queue,
     total_recorded |-> recorded, total_persisted |-> persisted,
     worker |-> worker, worker_batch |-> wbatch,
     stop |-> stop, stop_batch |-> sbatch]

\* MetricsManager(...) has been constructed and not started
MetricsIdle ==
    metrics_manager = Manager(DefaultMaxBatchSize, FALSE, FALSE, 0, 0, 0,
                              "none", 0, "none", 0)

\* MetricsManager(max_batch_size=...) has been constructed and start() has
\* created the worker task
MetricsStarted ==
    \E batch \in 1..MaxBatchSize :
        metrics_manager = Manager(batch, TRUE, FALSE, 0, 0, 0,
                                  "waiting", 0, "none", 0)

\* the number of records _flush_metrics takes from the queue:
\* range(min(max_batch_size, qsize)) calls of get_nowait
drained(m) == Min(m.max_batch_size, m.queue)

\* record_operation: the metric is queued and counted (the queue is never
\* full here); the call raises RuntimeError when the manager is not running
RecordOperation ==
    /\ metrics_manager.is_running
    /\ metrics_manager.total_recorded < MaxMetrics
    /\ metrics_manager' =
          [metrics_manager EXCEPT !.queue = @ + 1, !.total_recorded = @ + 1]

\* _background_worker: wait_for times out after flush_interval and the
\* queue is not empty: _flush_metrics drains a batch and starts writing it
FlushIntervalElapses ==
    /\ metrics_manager.worker = "waiting"
    /\ ~metrics_manager.shutdown_event
    /\ metrics_manager.queue > 0
    /\ metrics_manager' =
          [metrics_manager EXCEPT !.worker = "writing",
                                  !.worker_batch = drained(metrics_manager),
                                  !.queue = @ - drained(metrics_manager)]

\* the worker after the loop: the final flush, when the queue is not empty
WorkerFinalFlush(m) ==
    IF m.queue > 0
    THEN [m EXCEPT !.worker = "final_writing", !.worker_batch = drained(m),
                   !.queue = @ - drained(m)]
    ELSE [m EXCEPT !.worker = "done", !.worker_batch = 0]

\* the write of the worker's batch ends.  When it succeeded the statistics
\* are updated; when it raised, the except clause of the worker prints the
\* error and the records of the batch are gone.  The worker goes back to
\* the test of its loop, and on to the final flush when the shutdown event
\* is set, or ends after the final flush
WorkerWriteEnds ==
    \E written \in BOOLEAN :
    /\ metrics_manager.worker \in {"writing", "final_writing"}
    /\ LET m == [metrics_manager EXCEPT
                    !.total_persisted =
                        IF written THEN @ + metrics_manager.worker_batch
                        ELSE @,
                    !.worker_batch = 0]
       IN metrics_manager' =
            IF metrics_manager.worker = "final_writing"
            THEN [m EXCEPT !.worker = "done"]
            ELSE IF m.shutdown_event THEN WorkerFinalFlush(m)
            ELSE [m EXCEPT !.worker = "waiting"]

\* stop() up to its await of the worker task
MetricsStop ==
    /\ metrics_manager.stop = "none"
    /\ metrics_manager.is_running
    /\ metrics_manager' =
          [metrics_manager EXCEPT !.shutdown_event = TRUE,
                                  !.is_running = FALSE, !.stop = "waiting"]

\* the worker's wait_for returns because the shutdown event is set: break,
\* then the final flush
WorkerSeesShutdown ==
    /\ metrics_manager.worker = "waiting"
    /\ metrics_manager.shutdown_event
    /\ metrics_manager' = WorkerFinalFlush(metrics_manager)

\* _flush_metrics called by stop(): a batch is drained and its write
\* begins, or the queue is empty and stop() returns
StopFinalFlush(m) ==
    IF m.queue > 0
    THEN [m EXCEPT !.stop = "writing", !.stop_batch = drained(m),
                   !.queue = @ - drained(m)]
    ELSE [m EXCEPT !.stop = "returned"]

\* stop(): wait_for(worker_task, timeout) times out while the worker is
\* writing a batch; the worker is cancelled (CancelledError is not an
\* Exception: the records of the batch are neither written nor counted),
\* then stop() goes on to its flush
StopTimesOut ==
    /\ metrics_manager.stop = "waiting"
    /\ metrics_manager.worker \in {"writing", "final_writing"}
    /\ metrics_manager' =
          StopFinalFlush([metrics_manager EXCEPT !.worker = "done",
                                                 !.worker_batch = 0])

\* stop(): the worker task has ended; stop() goes on to its flush
StopFlushes ==
    /\ metrics_manager.stop = "waiting"
    /\ metrics_manager.worker = "done"
    /\ metrics_manager' = StopFinalFlush(metrics_manager)

\* the write of the batch of stop() ends: stop() returns, or the error of
\* the write leaves stop(), whose call of _flush_metrics is in no try
StopWriteEnds ==
    \E written \in BOOLEAN :
    /\ metrics_manager.stop = "writing"
    /\ metrics_manager' =
          [metrics_manager EXCEPT
              !.total_persisted =
                  IF written THEN @ + metrics_manager.stop_batch ELSE @,
              !.stop_batch = 0,
              !.stop = IF written THEN "returned" ELSE "raised"]

(***************************************************************************)
(* Specifications                                                          *)
(***************************************************************************)
\* the coordinator
Init == MetricsIdle /\ ScoreIdle /\ HistIdle /\ WatchIdle /\ CoordInit

Next ==
    \/ /\ \/ LifespanStartup
          \/ LifespanServing
          \/ StartTask
          \/ PostTestsRun
          \/ WsRunTests
          \/ FileChangeTrigger
          \/ LifespanShutdown
          \/ RunnerReturns
          \/ StatusBroadcastEnds
          \/ ResultBroadcastEnds
       /\ UNCHANGED <<metricsVars, scoreVars, histVars, watchVars, status_io,
                      connected_clients, broadcast_call>>

Spec == Init /\ [][Next]_vars

\* the coordinator with file changes as its only requests
NextFileChange ==
    \/ /\ \/ LifespanStartup
          \/ LifespanServing
          \/ StartTask
          \/ FileChangeAny
          \/ RunnerReturns
          \/ StatusBroadcastEnds
          \/ ResultBroadcastEnds
       /\ UNCHANGED <<metricsVars, scoreVars, histVars, watchVars, status_io,
                      connected_clients, broadcast_call>>

SpecFileChange == Init /\ [][NextFileChange]_vars

\* neural_status.json
InitStatusFile == MetricsIdle /\ ScoreIdle /\ HistIdle /\ WatchIdle /\ StatusFileInit

NextStatusFile ==
    /\ LoadStatus \/ UpdateNeuralStatus
    /\ UNCHANGED <<metricsVars, scoreVars, histVars, watchVars, connected_clients,
                   broadcast_call>>

SpecStatusFile == InitStatusFile /\ [][NextStatusFile]_vars

\* one call of broadcast while clients connect and disconnect
InitBroadcast == MetricsIdle /\ ScoreIdle /\ HistIdle /\ WatchIdle /\ BroadcastInit

NextBroadcast ==
    /\ \/ BroadcastBegins
       \/ SendEnds
       \/ ClientConnects
       \/ ClientDisconnects
    /\ UNCHANGED <<metricsVars, scoreVars, histVars, watchVars, test_running,
                   current_status, status_file, pc, origin, requests,
                   last_response, published, runner_calls, status_io>>

SpecBroadcast == InitBroadcast /\ [][NextBroadcast]_vars

\* the metrics manager from start() to the return of stop()
InitMetrics ==
    MetricsStarted /\ ScoreIdle /\ HistIdle /\ WatchIdle /\ CoordIdle

NextMetrics ==
    /\ \/ RecordOperation
       \/ FlushIntervalElapses
       \/ WorkerWriteEnds
       \/ MetricsStop
       \/ WorkerSeesShutdown
       \/ StopTimesOut
       \/ StopFlushes
       \/ StopWriteEnds
    /\ UNCHANGED <<scoreVars, histVars, watchVars, coordVars>>

SpecMetrics == InitMetrics /\ [][NextMetrics]_vars

\* the scorer
InitScorer == MetricsIdle /\ ScoreInit /\ HistIdle /\ WatchIdle /\ CoordIdle

NextScorer ==
    /\ Score \/ ScoreAgain
    /\ UNCHANGED <<metricsVars, histVars, watchVars, coordVars>>

SpecScorer == InitScorer /\ [][NextScorer]_vars

\* the regression detector
InitHistory == MetricsIdle /\ ScoreIdle /\ HistInit /\ WatchIdle /\ CoordIdle

NextHistory ==
    /\ SaveSnapshot \/ DetectRegressions
    /\ UNCHANGED <<metricsVars, scoreVars, watchVars, coordVars>>

SpecHistory == InitHistory /\ [][NextHistory]_vars

\* the trend over the saved snapshots
InitTrend == MetricsIdle /\ ScoreIdle /\ TrendInit /\ WatchIdle /\ CoordIdle

NextTrend ==
    /\ SaveTrendSnapshot \/ GetTrend
    /\ UNCHANGED <<metricsVars, scoreVars, watchVars, coordVars>>

SpecTrend == InitTrend /\ [][NextTrend]_vars

\* the file-event handler
InitWatcher == MetricsIdle /\ ScoreIdle /\ HistIdle /\ WatchIdle /\ CoordIdle

NextWatcher ==
    /\ OnCreated \/ OnModified \/ OnDeleted \/ OnMoved \/ Tick
    /\ UNCHANGED <<metricsVars, scoreVars, histVars, coordVars>>

SpecWatcher == InitWatcher /\ [][NextWatcher]_vars

\* the file-event handler with a downstream callback that raises
InitFailingCallback == MetricsIdle /\ ScoreIdle /\ HistIdle /\ WatchFailingCallback /\ CoordIdle

SpecFailingCallback == InitFailingCallback /\ [][NextWatcher]_vars

\* the watcher until it is stopped
NextWatcherStop ==
    /\ OnModified \/ OnDeleted \/ Tick \/ Stop
    /\ UNCHANGED <<metricsVars, scoreVars, histVars, coordVars>>

SpecWatcherStop == InitWatcher /\ [][NextWatcherStop]_vars

\* the running watcher while its ignore set is changed
NextIgnoreSet ==
    /\ \/ OnModified
       \/ OnDeleted
       \/ Tick
       \/ AddIgnoredPattern
       \/ RemoveIgnoredPattern
    /\ UNCHANGED <<metricsVars, scoreVars, histVars, coordVars>>

SpecIgnoreSet == InitWatcher /\ [][NextIgnoreSet]_vars

\* the watcher through stop() and start() calls while its ignore set is
\* changed and files are written
NextRestart ==
    /\ \/ Start
       \/ Stop
       \/ AddIgnoredPattern
       \/ RemoveIgnoredPattern
       \/ OnModified
       \/ Tick
    /\ UNCHANGED <<metricsVars, scoreVars, histVars, coordVars>>

SpecRestart == InitWatcher /\ [][NextRestart]_vars

\* the watcher from its construction, through start() and stop() calls
InitLifecycle == MetricsIdle /\ ScoreIdle /\ HistIdle /\ WatchConstructed /\ CoordIdle

NextLifecycle ==
    /\ Start \/ Stop \/ OnModified \/ Tick
    /\ UNCHANGED <<metricsVars, scoreVars, histVars, coordVars>>

SpecLifecycle == InitLifecycle /\ [][NextLifecycle]_vars

(***************************************************************************)
(* Properties                                                              *)
(***************************************************************************)
RunsInFlight == {t \in Tasks : pc[t] \in InRun}

\* C1: in every reachable state at most one invocation of
\* run_tests_and_update is inside its run (between setting and clearing the
\* flag), hence at most one execution of the test runner is in progress
C1_SingleFlight ==
    /\ Cardinality(RunsInFlight) <= 1
    /\ Cardinality({t \in Tasks : pc[t] = "runner"}) <= 1

\* a run is in flight and another invocation has been turned away
C1_Witness ==
    \E t, u \in Tasks :
        /\ pc[t] \in InRun
        /\ pc[u] = "done_skipped"
        /\ origin[u] = "post"

C3_FlagTracksRun ==
    /\ pc[Lifespan] = "init" => ~test_running
    /\ test_running <=> RunsInFlight # {}
    /\ \A t \in Tasks : pc[t] = "runner" => test_running

\* a cycle has ended by an exception and the flag is false again
C3_Witness ==
    /\ \E t \in Tasks : pc[t] = "done_raised"
    /\ \E t \in Tasks : pc[t] = "done_ok"
    /\ ~test_running

\* ---- watcher ----
WriteKinds == {"created", "modified"}
\* the files whose events are not noise
PlainFiles == {p \in Paths : p \notin Directories
                            /\ ~should_ignore(p, DefaultIgnoredPatterns)}
\* positions of the write events observed for path p
Writes(p) == {i \in 1..Len(observed) :
                 observed[i].path = p /\ observed[i].kind \in WriteKinds}
\* positions of the notifications delivered for path p
Deliveries(p) == {i \in 1..Len(delivered) : delivered[i].file_path = p}
DeliveredWrites(p) == {i \in Deliveries(p) :
                          delivered[i].event_type \in WriteKinds}

\* C4: (a) when all write events observed for a file lie within less than
\* the debounce window, exactly one of them has been delivered; (b) a write
\* event that comes more than the debounce window after every earlier write
\* event for the same file is delivered
C4_Debounce ==
    \A p \in PlainFiles :
        /\ ( /\ Writes(p) # {}
             /\ \A i, j \in Writes(p) :
                   observed[j].at - observed[i].at < DebounceWindow )
           => Cardinality(DeliveredWrites(p)) = 1
        /\ \A i \in Writes(p) :
              (\A j \in Writes(p) :
                   j < i => observed[i].at - observed[j].at > DebounceWindow)
              => \E d \in DeliveredWrites(p) :
                    /\ delivered[d].at = observed[i].at
                    /\ delivered[d].event_type = observed[i].kind

\* two writes within the window of which one is delivered, then a third
\* write more than a window later, delivered too
C4_Witness ==
    /\ Len(observed) = 3
    /\ Writes(AppPy) = {1, 2, 3}
    /\ observed[2].at - observed[1].at < DebounceWindow
    /\ observed[2].at > observed[1].at
    /\ observed[3].at - observed[2].at > DebounceWindow
    /\ Len(delivered) = 2
    /\ delivered[1].at = observed[1].at
    /\ delivered[2].at = observed[3].at

\* C5: two notifications delivered for the same path, whatever their kinds,
\* are never less than the debounce window apart
C5_OnePerWindow ==
    \A p \in Paths :
        \A i, j \in Deliveries(p) :
            i < j => delivered[j].at - delivered[i].at >= DebounceWindow

\* ---- regression detector ----
\* the last n elements of a sequence
LastN(seq, n) == SubSeq(seq, Len(seq) - n + 1, Len(seq))

\* C6: after each save_snapshot call that wrote the file, the persisted
\* history holds at most max_history snapshots
C6_HistoryBounded ==
    (hist_last.op = "save" /\ hist_last.outcome = "ok")
    => Len(load_history(history_file)) <= max_history

\* C7: starting from an empty history, after n successful save_snapshot
\* calls the persisted history is the last min(n, max_history) saved
\* snapshots, in the order they were saved
C7_Fifo ==
    (saved.from_empty /\ saved.all_ok)
    => load_history(history_file)
         = LastN(saved.dumps, Min(Len(saved.dumps), max_history))

\* the history file is missing, empty or unparseable, holds JSON that is not
\* a list, or holds the empty list
NoUsableHistory ==
    \/ history_file.kind \in {"missing", "corrupt", "other"}
    \/ history_file.kind = "value" /\ history_file.data[1] = <<>>

\* C8: without a usable history detect_regressions returns the empty list
\* and does not raise, whatever the current status
C8_NoBaselineNoAlerts ==
    (hist_last.op = "detect" /\ NoUsableHistory)
    => hist_last.alerts = <<>> /\ ~hist_last.raised

\* detect_regressions has been called on a regressed status over a history
\* file that a failed write left unparseable
C8_Witness ==
    /\ hist_last.op = "detect"
    /\ hist_last.current = <<RegressedStatus>>
    /\ history_file.kind = "corrupt"
    /\ saved.calls > 0

\* the ranking Healthy > Warning > Error > Offline
C9_Rank(st) ==
    CASE st = "healthy" -> 3 [] st = "warning" -> 2 [] st = "error" -> 1
      [] st = "offline" -> 0

\* no tracked metric of cur is worse than in the snapshot last
C9_NoWorse(cur, last) ==
    /\ cur.illumination >= last.illumination
    /\ \A r \in DOMAIN cur.regions \cap DOMAIN last.regions :
          /\ cur.regions[r].coverage >= last.regions[r].coverage
          /\ C9_Rank(cur.regions[r].status) >= C9_Rank(last.regions[r].status)
          /\ cur.regions[r].failing_tests <= last.regions[r].failing_tests

\* C9: when no tracked metric of the current status is worse than in the
\* most recent saved snapshot, detect_regressions returns the empty list
C9_NoRegressionOnImprovement ==
    LET history == load_history(history_file) IN
    ( /\ hist_last.op = "detect"
      /\ history # <<>>
      /\ history[Len(history)].json = "object"
      /\ C9_NoWorse(hist_last.current[1], history[Len(history)]) )
    => hist_last.alerts = <<>> /\ ~hist_last.raised

\* the regressed status was saved last and the baseline status, better in
\* every metric, is compared against it
C9_Witness ==
    /\ hist_last.op = "detect"
    /\ saved.dumps # <<>>
    /\ load_history(history_file) # <<>>
    /\ load_history(history_file)[Len(load_history(history_file))]
          = ModelDump(RegressedStatus)
    /\ hist_last.current = <<BaselineStatus>>
    /\ hist_last.alerts = <<>>

\* ---- scorer ----
\* C10: for every input, raw coverage below 0 or above 100 included, the
\* status returned has its illumination in [0, 1] and every region's
\* coverage in [0, 100], out-of-range coverage being replaced by the bound
C10_Clamped ==
    sc_out # <<>> =>
        LET st == sc_out[1]
            cov == sc_in[1].cov
        IN /\ 0 <= st.illumination /\ st.illumination <= IllumOne
           /\ DOMAIN st.regions = RegionNames
           /\ \A r \in DOMAIN st.regions :
                 0 <= st.regions[r].coverage /\ st.regions[r].coverage <= 100
           /\ cov > 100 => st.regions["tests"].coverage = 100
           /\ cov < 0 => st.regions["tests"].coverage = 0

\* coverage 150 has been scored: the region holds 100 and the illumination
\* is 1.0
C10_Witness ==
    /\ sc_out # <<>>
    /\ sc_in[1].cov = 150
    /\ sc_out[1].regions["tests"].coverage = 100
    /\ sc_out[1].illumination = IllumOne
\* C12: two successive calls of the scorer with the same test outcome, file
\* counts and project files, between which the first status was persisted,
\* return the same status (the model's status carries no timestamp)
C12_Deterministic ==
    Len(sc_out) = 2 => sc_out[2] = sc_out[1]

\* ---- orchestrator ----
\* C11: the status held as current status, the status persisted in
\* neural_status.json and the status published all have exactly the six
\* fixed region keys
C11_SixRegions ==
    /\ current_status # <<>>
          => DOMAIN current_status[1].regions = RegionNames
    /\ status_file.kind = "value"
          => DOMAIN status_file.data[1].regions = RegionNames
    /\ published.type = "neural_status"
          => DOMAIN published.data[1].regions = RegionNames

\* C13: once a cycle has scored and published a status, the history file
\* holds a snapshot (max_history being positive)
C13_HistoryPerCycle ==
    (published.type # "none" /\ max_history > 0)
    => load_history(history_file) # <<>>

\* C14: a file change handled while no run is in flight hands a run to the
\* event loop: an invocation of run_tests_and_update becomes pending or
\* starts
C14_FileChangeStartsRun ==
    [][ ( /\ requests' = requests + 1
          /\ last_response'.req = "file"
          /\ ~test_running
          /\ Unused # {} )
        => \E t \in Unused : pc'[t] \in {"pending", "runner"} ]_vars

\* C15: a step made after shutdown by the run that was in flight at
\* shutdown changes neither the current status nor neural_status.json and
\* publishes nothing
C15_StaleDiscarded ==
    [][ ( /\ pc[Lifespan] = "stopped"
          /\ last_response.req = "shutdown"
          /\ last_response.answer \in Tasks
          /\ pc'[last_response.answer] # pc[last_response.answer] )
        => /\ current_status' = current_status
           /\ status_file' = status_file
           /\ published' = published ]_vars

\* ---- watcher: stop, order, callback errors, noise, ignore set ----
\* the files that no ignore set of the model matches
NeverIgnored == {p \in Paths : p \notin Directories
                   /\ ~should_ignore(p, DefaultIgnoredPatterns
                                          \cup MutablePatterns)}
\* positions of the events observed for path p
Observations(p) == {i \in 1..Len(observed) : observed[i].path = p}

\* C16: once the watcher has been stopped, the most recent change observed
\* for a file has a notification for that file delivered at or after it
C16_FlushOnStop ==
    observer = "stopped" =>
        \A p \in NeverIgnored :
            \A i \in Observations(p) :
                \E d \in Deliveries(p) : delivered[d].at >= observed[i].at

\* the delivered event d is the observed event o
SameEvent(d, o) ==
    /\ d.event_type = o.kind
    /\ d.file_path = o.path
    /\ d.at = o.at

\* d[i..] is a subsequence of o[j..]
RECURSIVE IsSubsequence(_, _, _, _)
IsSubsequence(d, i, o, j) ==
    IF i > Len(d) THEN TRUE
    ELSE IF j > Len(o) THEN FALSE
    ELSE IF SameEvent(d[i], o[j]) THEN IsSubsequence(d, i + 1, o, j + 1)
    ELSE IsSubsequence(d, i, o, j + 1)

\* C17: the delivered events are a subsequence of the observed events, so
\* the events of a path are delivered in the order they were observed
C17_OrderPreserved == IsSubsequence(delivered, 1, observed, 1)

\* a write, a suppressed write and a deletion of src/app.py at one instant:
\* the write and the deletion are delivered, in that order
C17_Witness ==
    /\ Len(observed) = 3
    /\ \A i \in 1..3 : observed[i].path = AppPy
    /\ observed[2].kind = "modified"
    /\ Len(delivered) = 2
    /\ delivered[1].event_type = "modified"
    /\ delivered[2].event_type = "deleted"

\* positions of the deleted and moved events observed for path p
Undebounced(p) == {i \in Observations(p) :
                      observed[i].kind \in {"deleted", "moved"}}

\* C18: with a callback that raises on every event the observer stays
\* alive and events go on being delivered: every deleted or moved event of
\* a file, and a write event of every file that was written
C18_CallbackErrorsCaught ==
    on_change_callback = "raises" =>
        /\ observer = "alive"
        /\ \A p \in PlainFiles :
              /\ Cardinality(Deliveries(p) \ DeliveredWrites(p))
                    = Cardinality(Undebounced(p))
              /\ Writes(p) # {} => DeliveredWrites(p) # {}

\* the callback raised on a created, a deleted and a moved event, one after
\* the other
C18_Witness ==
    /\ on_change_callback = "raises"
    /\ Len(delivered) = 3
    /\ delivered[1].event_type = "created"
    /\ delivered[2].event_type = "deleted"
    /\ delivered[3].event_type = "moved"

\* the configured directory-name set and suffix set
IgnoredNames == {q.text : q \in {r \in DefaultIgnoredPatterns : ~r.ext}}
IgnoredSuffixes == {q.text : q \in {r \in DefaultIgnoredPatterns : r.ext}}
\* a directory, or a path with an ignored segment or an ignored extension
Noise(p) ==
    \/ p \in Directories
    \/ \E i \in 1..Len(p.parts) : p.parts[i] \in IgnoredNames
    \/ p.suffix \in IgnoredSuffixes

\* C19: no delivered notification is for a directory or for a path that the
\* ignore set matches, whatever the kind of the event
C19_NoNoise ==
    \A d \in 1..Len(delivered) : ~Noise(delivered[d].file_path)

\* a directory creation, a move into __pycache__ and a directory deletion
\* have been observed and nothing was delivered
C19_Witness ==
    /\ Len(observed) = 3
    /\ observed[1].kind = "created" /\ observed[1].is_directory
    /\ observed[2].kind = "moved" /\ observed[2].path = CachePyc
    /\ observed[3].kind = "deleted" /\ observed[3].is_directory
    /\ delivered = <<>>

\* the ignore set according to the calls made: a pattern last added is in
\* it, a pattern last removed is not, the others are the defaults
InEffect ==
    {q \in DefaultIgnoredPatterns \cup MutablePatterns :
        IF q \in MutablePatterns /\ last_pattern_call[q] # "none"
        THEN last_pattern_call[q] = "add"
        ELSE q \in DefaultIgnoredPatterns}

C21_LifecycleIdempotent ==
    /\ [](is_running <=> lifecycle.last = "start")
    /\ [][ lifecycle'.calls = lifecycle.calls + 1 =>
            /\ ~lifecycle'.raised
            /\ (lifecycle'.last = "start" /\ is_running)
                  => /\ lifecycle'.observers = lifecycle.observers
                     /\ UNCHANGED <<observer, last_event_time,
                                    ignored_patterns, now, observed,
                                    delivered>>
            /\ (lifecycle'.last = "stop" /\ ~is_running)
                  => /\ lifecycle'.observers = lifecycle.observers
                     /\ UNCHANGED <<observer, last_event_time,
                                    ignored_patterns, now, observed,
                                    delivered>> ]_vars

\* four lifecycle calls created one observer, which delivered an event and
\* has been stopped: two of the calls were redundant
C21_Witness ==
    /\ lifecycle.calls = 4
    /\ lifecycle.observers = 1
    /\ lifecycle.last = "stop"
    /\ delivered # <<>>
    /\ ~is_running

\* ---- orchestrator: which file changes ask for a run ----
\* a test file, or a path under src/ or neural_cli/
WarrantsRun(p) ==
    \/ /\ Len(p.parts) > 1
       /\ \E i \in 1..Len(p.parts) : p.parts[i] = "tests"
       /\ p.suffix = ".py"
       /\ Name(p) \in {"test_app.py"}
    \/ p.parts[1] \in {"src", "neural_cli"}

\* C22: handling a file change queues an invocation of
\* run_tests_and_update if and only if the path of the event is a test file
\* or lies under src/ or neural_cli/
C22_RunIffSourceOrTest ==
    [][ ( /\ requests' = requests + 1
          /\ last_response'.req = "file"
          /\ Unused # {} )
        => ( WarrantsRun(last_response'.path[1])
             <=> \E t \in Unused : pc'[t] = "pending" ) ]_vars

\* ---- orchestrator: neural_status.json ----
\* what load_status has to return for a file: the status whose
\* serialization the file holds, or the default status
Loaded(file) ==
    IF file.kind = "value"
    THEN {st \in {current_status[1]} : ModelDump(st) = file.data[1]}
    ELSE {DefaultStatus}

\* load_status does not raise, returns the status that save_status wrote
\* last when the file holds one, and the default status (illumination 0.0)
\* when the file is absent or unparseable
LoadStatusSound ==
    status_io.op = "load" =>
        /\ ~status_io.raised
        /\ current_status[1] \in Loaded(status_file)
        /\ (status_file.kind = "value" /\ status_io.written # <<>>)
              => current_status[1] = status_io.written[1]
        /\ status_file.kind # "value" => current_status[1].illumination = 0

\* C23 as stated: load_status is sound, and after every recomputation
\* neural_status.json holds the serialization of the current status
C23_StatusPersistence ==
    /\ LoadStatusSound
    /\ status_io.op = "save"
          => status_file = ValueFile(ModelDump(current_status[1]))

\* C23, amended: load_status is sound, and after every recomputation whose
\* write succeeded neural_status.json holds the serialization of the
\* current status; when the file could not be opened it keeps its content
C23_StatusPersistenceWhenWritten ==
    /\ LoadStatusSound
    /\ (status_io.op = "save" /\ status_io.outcome = "ok")
          => status_file = ValueFile(ModelDump(current_status[1]))
    /\ (status_io.op = "save" /\ status_io.outcome = "open_fails"
           /\ status_io.written # <<>>)
          => status_file = ValueFile(ModelDump(status_io.written[1]))

\* a recomputation wrote its status, the next one failed to open the file,
\* and load_status then returned the status written by the first
C23_Witness ==
    /\ status_io.op = "load"
    /\ requests = 3
    /\ status_io.written # <<>>
    /\ status_file = ValueFile(ModelDump(status_io.written[1]))
    /\ current_status = status_io.written
    /\ published.type = "neural_status"
    /\ published.data # status_io.written
    /\ current_status[1].illumination > 0

\* ---- orchestrator: broadcast ----
\* C24: broadcast does not raise; once it has returned, no client whose
\* send failed is connected, and every client that was connected when it
\* began and is still connected has received the message
C24_BroadcastIsolatesFailures ==
    /\ broadcast_call.phase # "raised"
    /\ broadcast_call.phase = "returned" =>
          /\ connected_clients \cap broadcast_call.disconnected = {}
          /\ \A c \in broadcast_call.initial \cap connected_clients :
                c \in broadcast_call.received

\* ---- regression detector: the illumination alert ----
\* the alerts of a list that are about the illumination
IlluminationAlerts(alerts) ==
    {i \in 1..Len(alerts) : alerts[i].metric = "illumination"}

\* C25: against a last snapshot, detect_regressions returns one
\* illumination alert when the illumination dropped by more than 0.10 and
\* none otherwise; the alert is critical when the drop is more than 0.20 and
\* moderate otherwise
C25_IlluminationAlert ==
    LET history == load_history(history_file) IN
    ( /\ hist_last.op = "detect"
      /\ history # <<>>
      /\ history[Len(history)].json = "object" )
    => LET drop == history[Len(history)].illumination
                     - hist_last.current[1].illumination
           found == IlluminationAlerts(hist_last.alerts)
       IN /\ ~hist_last.raised
          /\ Cardinality(found) = (IF drop > Pct(10) THEN 1 ELSE 0)
          /\ \A i \in found :
                hist_last.alerts[i].severity
                   = (IF drop > Pct(20) THEN "critical" ELSE "moderate")

\* the baseline 0.85 was saved last and a status of illumination 0.70 is
\* compared against it: one illumination alert, moderate
C25_Witness ==
    /\ hist_last.op = "detect"
    /\ saved.dumps # <<>>
    /\ load_history(history_file) # <<>>
    /\ load_history(history_file)[Len(load_history(history_file))].illumination
          = Pct(85)
    /\ hist_last.current[1].illumination = Pct(70)
    /\ Cardinality(IlluminationAlerts(hist_last.alerts)) = 1
    /\ \A i \in IlluminationAlerts(hist_last.alerts) :
          hist_last.alerts[i].severity = "moderate"

\* ---- regression detector: trends ----
\* the coverage of the region "ui-components" in each snapshot of a list
UiCoverage(dumps) ==
    [i \in 1..Len(dumps) |-> dumps[i].regions["ui-components"].coverage]

\* C26: after five snapshots of coverage 50, 60, 70, 80, 90 were saved in
\* this order into an empty history, get_trend("coverage") without a region
\* returns Improving
C26_CoverageTrendImproving ==
    ( /\ hist_last.op = "trend"
      /\ hist_last.current[1] = [metric |-> "coverage", region |-> ""]
      /\ saved.from_empty
      /\ max_history = DefaultMaxHistory
      /\ UiCoverage(saved.dumps) = <<50, 60, 70, 80, 90>> )
    => hist_last.outcome = "improving"

\* the series that a metric and a region name in a history of statuses: the
\* illumination of every snapshot, or the coverage of the region in every
\* snapshot that has the region; a snapshot has no coverage of its own and
\* a region no illumination
HasUi(d) == "ui-components" \in DOMAIN d.regions
RequestedSeries(history, metric, region) ==
    IF region = "" /\ metric = "illumination"
    THEN [i \in 1..Len(history) |-> history[i].illumination]
    ELSE IF region = "ui-components" /\ metric = "coverage"
    THEN UiCoverage(SelectSeq(history, HasUi))
    ELSE <<>>

\* C30: get_trend returns Stable when the series has fewer than 3 values;
\* otherwise Improving when last minus first is more than the threshold,
\* Degrading when first minus last is more than it, Stable otherwise; the
\* threshold is 0.05 for illumination and 5.0 for coverage
C30_TrendFirstLast ==
    LET history == load_history(history_file) IN
    ( /\ hist_last.op = "trend"
      /\ \A i \in 1..Len(history) : history[i].json = "object" )
    => LET q == hist_last.current[1]
           v == RequestedSeries(history, q.metric, q.region)
           threshold == IF q.metric = "illumination" THEN Pct(5) ELSE 5
       IN /\ ~hist_last.raised
          /\ hist_last.outcome =
                (IF Len(v) < 3 THEN "stable"
                 ELSE IF v[Len(v)] - v[1] > threshold THEN "improving"
                 ELSE IF v[1] - v[Len(v)] > threshold THEN "degrading"
                 ELSE "stable")

\* five snapshots were saved into a window of three; the coverage of the
\* retained ones goes 90, 50, 60 and the trend of the coverage of
\* ui-components is Degrading
C30_Witness ==
    /\ hist_last.op = "trend"
    /\ hist_last.current[1] = [metric |-> "coverage",
                               region |-> "ui-components"]
    /\ max_history = 3
    /\ Len(saved.dumps) = 5
    /\ UiCoverage(load_history(history_file)) = <<90, 50, 60>>
    /\ hist_last.outcome = "degrading"

\* ---- scorer: scenarios ----
\* the inputs of scenario A: coverage 85, the five documentation items,
\* frontend, backend and test files, every config file, 2 providers, no
\* failing test
ScenarioA ==
    /\ sc_out # <<>>
    /\ sc_in[1].cov = 85
    /\ sc_in[1].fs.readme /\ sc_in[1].fs.readme_big
    /\ sc_in[1].fs.license \/ sc_in[1].fs.license_md
    /\ sc_in[1].fs.claude_md
    /\ sc_in[1].fs.api_docs
    /\ sc_in[1].fs.setup_md \/ sc_in[1].fs.quickstart_md
    /\ sc_in[1].fc.frontend > 0 /\ sc_in[1].fc.backend > 0
    /\ sc_in[1].fc.tests > 0
    /\ sc_in[1].fs.configs = ConfigFiles
    /\ sc_in[1].fs.providers = 2
    /\ sc_in[1].tr.failed = 0

\* documentationScore 100, moduleCompletion 100, integrationScore 80,
\* overallHealth 81.75, illumination 0.9175, no diagnostic
ScenarioAResult ==
    /\ sc_metrics[1].documentation_score = 100
    /\ sc_metrics[1].module_completion = 3 * 100
    /\ sc_metrics[1].integration_score = 80
    /\ 100 * sc_metrics[1].overall_health = 8175 * 300
    /\ 10000 * sc_out[1].illumination = 9175 * IllumOne
    /\ sc_out[1].diagnostics = <<>>

\* C27 as stated: the inputs of scenario A give the result of scenario A
C27_ScenarioA == ScenarioA => ScenarioAResult

\* an external-API configuration is present: in the environment, in .env,
\* or as the flag of the persisted status
ApiPresent ==
    \/ sc_in[1].fs.env_api
    \/ sc_in[1].fs.dotenv_api
    \/ /\ sc_in[1].sfile.kind = "value"
       /\ sc_in[1].sfile.data[1].api_configured

\* the persisted status records at least one test and no failing test
PriorStatusReady ==
    /\ sc_in[1].sfile.kind = "value"
    /\ \E r \in DOMAIN sc_in[1].sfile.data[1].regions :
          sc_in[1].sfile.data[1].regions[r].test_count > 0
    /\ \A r \in DOMAIN sc_in[1].sfile.data[1].regions :
          sc_in[1].sfile.data[1].regions[r].failing_tests = 0

\* C27, amended: the inputs of scenario A give the result of scenario A
\* when an API configuration is present and the persisted status records
\* tests, none of them failing
C27_ScenarioAConfigured ==
    (ScenarioA /\ ApiPresent /\ PriorStatusReady) => ScenarioAResult

\* scenario A has been scored with the API key in .env and a persisted
\* status that is production ready: illumination 0.9175
C27_Witness ==
    /\ ScenarioA
    /\ sc_in[1].fs.dotenv_api
    /\ PriorStatusReady
    /\ sc_in[1].tr.total > 0
    /\ 10000 * sc_out[1].illumination = 9175 * IllumOne

\* the regions whose status comes from the test outcome
TestedRegions == {"ui-components", "core-logic", "tests"}

\* C28: in every status returned, the regions ui-components, core-logic
\* and tests are Error when the test outcome has failing tests, otherwise
\* Warning when the test coverage is below 50, otherwise Healthy
C28_RegionStatusPriority ==
    \A k \in 1..Len(sc_out) :
        \A r \in TestedRegions :
            sc_out[k].regions[r].status
               = (IF sc_in[1].tr.failed > 0 THEN "error"
                  ELSE IF sc_in[1].cov < 50 THEN "warning"
                  ELSE "healthy")

\* 2 failing tests at coverage 49: the tests region is Error
C28_Witness ==
    /\ Len(sc_out) = 1
    /\ sc_in[1].tr.failed = 2
    /\ sc_in[1].cov = 49
    /\ sc_out[1].regions["tests"].status = "error"
    /\ sc_out[1].regions["tests"].failing_tests = 2

\* ---- metrics manager ----
\* C29: once stop() has returned, the queue is empty and every metric that
\* record_operation accepted has been written to disk
C29_StopFlushesAll ==
    metrics_manager.stop = "returned" =>
        /\ metrics_manager.queue = 0
        /\ metrics_manager.total_persisted = metrics_manager.total_recorded

\* ---- regression detector: the alerts of a region ----
\* a detect_regressions call has compared a status against a last snapshot
Compared ==
    /\ hist_last.op = "detect"
    /\ load_history(history_file) # <<>>
    /\ load_history(history_file)[Len(load_history(history_file))].json
          = "object"

\* the last snapshot and the status compared against it
LastSnapshot == load_history(history_file)[Len(load_history(history_file))]
ComparedStatus == hist_last.current[1]

\* the alerts returned about the metric of a region
AlertsAbout(metric, name) ==
    {i \in 1..Len(hist_last.alerts) :
        /\ hist_last.alerts[i].metric = metric
        /\ hist_last.alerts[i].region = name}

\* the regions of the compared status the last snapshot has too
RegionsInBoth == DOMAIN ComparedStatus.regions \cap DOMAIN LastSnapshot.regions

\* C31: for a region in both the last snapshot and the current status there
\* is at most one coverage alert: moderate when the drop is more than 10,
\* minor when it is more than 2 and at most 10, none when it is at most 2;
\* a region the last snapshot does not have yields no alert at all
C31_RegionCoverageAlert ==
    Compared =>
      /\ \A name \in RegionsInBoth :
            LET drop == LastSnapshot.regions[name].coverage
                          - ComparedStatus.regions[name].coverage
                found == AlertsAbout("coverage", name)
            IN /\ Cardinality(found) = (IF drop > 2 THEN 1 ELSE 0)
               /\ \A i \in found :
                     hist_last.alerts[i].severity
                        = (IF drop > 10 THEN "moderate" ELSE "minor")
      /\ \A name \in DOMAIN ComparedStatus.regions \ RegionsInBoth :
            \A i \in 1..Len(hist_last.alerts) :
                hist_last.alerts[i].region # name

\* coverage 85 was saved last and a status of coverage 75 is compared
\* against it: the drop of 10 gives one alert, minor
C31_Witness ==
    /\ Compared
    /\ saved.dumps # <<>>
    /\ "tests" \in RegionsInBoth
    /\ LastSnapshot.regions["tests"].coverage = 85
    /\ ComparedStatus.regions["tests"].coverage = 75
    /\ \E i \in AlertsAbout("coverage", "tests") :
          hist_last.alerts[i].severity = "minor"

\* C32: for a region in both the last snapshot and the current status there
\* is a status alert, moderate, exactly when the current status ranks
\* strictly lower than the prior one under Healthy(3) > Warning(2) >
\* Error(1) > Offline(0)
C32_StatusDegraded ==
    Compared =>
      \A name \in RegionsInBoth :
          LET found == AlertsAbout("status", name) IN
          /\ Cardinality(found)
               = (IF C9_Rank(ComparedStatus.regions[name].status)
                       < C9_Rank(LastSnapshot.regions[name].status)
                  THEN 1 ELSE 0)
          /\ \A i \in found : hist_last.alerts[i].severity = "moderate"

\* a healthy region was saved last and the same region, now warning, is
\* compared against it: one status alert
C32_Witness ==
    /\ Compared
    /\ saved.dumps # <<>>
    /\ "tests" \in RegionsInBoth
    /\ LastSnapshot.regions["tests"].status = HEALTHY
    /\ ComparedStatus.regions["tests"].status = WARNING
    /\ Cardinality(AlertsAbout("status", "tests")) = 1

\* a region is in error in the last snapshot and offline in the compared
\* status
ErrorToOffline(name) ==
    /\ name \in RegionsInBoth
    /\ LastSnapshot.regions[name].status = ERROR
    /\ ComparedStatus.regions[name].status = OFFLINE

\* C33: a transition of a region from Error in the last snapshot to Offline
\* in the current status is never flagged as a status degradation
C33_ErrorToOfflineNeverFlagged ==
    Compared =>
      \A name \in RegionsInBoth :
          ErrorToOffline(name) => AlertsAbout("status", name) = {}

\* C33 as amended: a transition of a region from Error in the last snapshot
\* to Offline in the current status is always flagged: one moderate status
\* alert
C33_ErrorToOfflineFlagged ==
    Compared =>
      \A name \in RegionsInBoth :
          ErrorToOffline(name) =>
              /\ Cardinality(AlertsAbout("status", name)) = 1
              /\ \A i \in AlertsAbout("status", name) :
                    hist_last.alerts[i].severity = "moderate"

\* the region "tests", in error in the last snapshot, is offline in the
\* compared status
C33_Witness ==
    /\ Compared
    /\ ErrorToOffline("tests")
    /\ ~hist_last.raised

\* C34: for a region in both the last snapshot and the current status there
\* is a failing_tests alert, critical and carrying the old and the new
\* count, exactly when the current count of failing tests is greater than
\* the count of the last snapshot
C34_NewTestFailures ==
    Compared =>
      \A name \in RegionsInBoth :
          LET last_failing == LastSnapshot.regions[name].failing_tests
              current_failing == ComparedStatus.regions[name].failing_tests
              found == AlertsAbout("failing_tests", name)
          IN /\ Cardinality(found)
                  = (IF current_failing > last_failing THEN 1 ELSE 0)
             /\ \A i \in found :
                   /\ hist_last.alerts[i].severity = "critical"
                   /\ hist_last.alerts[i].new_value
                        - hist_last.alerts[i].old_value
                          = current_failing - last_failing

\* no test failed in the snapshot saved last and one test fails in the
\* compared status: one critical alert
C34_Witness ==
    /\ Compared
    /\ saved.dumps # <<>>
    /\ "tests" \in RegionsInBoth
    /\ LastSnapshot.regions["tests"].failing_tests = 0
    /\ ComparedStatus.regions["tests"].failing_tests = 1
    /\ Cardinality(AlertsAbout("failing_tests", "tests")) = 1

\* ---- coordinator: accepted requests ----
\* C37: a task created by a POST /tests/run that was answered with "Test
\* run initiated" never ends without having called the test runner
C37_AcceptedPostRuns ==
    \A t \in Tasks : origin[t] = "post" => pc[t] # "done_skipped"

\* ---- the api_configured flag across scoring cycles ----
\* the integration score of a status: the coverage of its region
\* api-integration
IntegrationScoreOf(status) == status.regions["api-integration"].coverage

\* C39: once a status with api_configured = true has been persisted to
\* neural_status.json, every status scored later has api_configured = true
\* and an integration score of at least 50, with no API configuration left
\* in the environment or in .env
C39_ApiFlagSelfSustaining ==
    (status_io.op = "save" /\ status_io.api_persisted) =>
        /\ current_status[1].api_configured
        /\ IntegrationScoreOf(current_status[1]) >= 50

\* C39 as amended: a scoring cycle that starts with a status with
\* api_configured = true in neural_status.json scores a status with
\* api_configured = true and an integration score of at least 50, with no
\* API configuration left in the environment or in .env, and leaves the
\* flag in the file unless its write fails after truncating the file
C39_ApiFlagSustainedWhileInFile ==
    [][ (ApiFlagInFile(status_file) /\ requests' # requests) =>
          /\ current_status'[1].api_configured
          /\ IntegrationScoreOf(current_status'[1]) >= 50
          /\ status_io'.outcome \in {"ok", "open_fails"}
                => ApiFlagInFile(status_file') ]_vars

\* two scoring cycles have run without an API configuration, the second on
\* the status the first one wrote: the flag is still set and still in the
\* file
C39_Witness ==
    /\ status_io.op = "save"
    /\ requests >= 2
    /\ status_io.outcome = "ok"
    /\ ~ProjectProbe.env_api /\ ~ProjectProbe.dotenv_api
    /\ current_status[1].api_configured
    /\ IntegrationScoreOf(current_status[1]) >= 50
    /\ ApiFlagInFile(status_file)

\* ---- scorer: the production-ready bonus ----
\* the neural_status.json that scoring cycle i reads: the file given for
\* the first cycle, the status written by cycle i - 1 afterwards
PersistedBefore(i) ==
    IF i = 1 THEN sc_in[1].sfile ELSE ValueFile(ModelDump(sc_out[i - 1]))

\* a persisted status with at least one test and no region with failing
\* tests
PersistedReady(file) ==
    /\ file.kind = "value"
    /\ \E r \in DOMAIN file.data[1].regions :
          file.data[1].regions[r].test_count > 0
    /\ \A r \in DOMAIN file.data[1].regions :
          file.data[1].regions[r].failing_tests = 0

\* C35: the illumination of a cycle is its overall health plus a bonus,
\* divided by 100 and capped at 1; the bonus is 10 when the status
\* persisted before the cycle has at least one test and no region with
\* failing tests, and 0 otherwise, whatever the test outcome of the cycle
C35_BonusFromPersistedStatus ==
    \A i \in 1..Len(sc_out) :
        sc_out[i].illumination
          = Min(sc_metrics[i].overall_health
                + (IF PersistedReady(PersistedBefore(i)) THEN Pct(10) ELSE 0),
                IllumOne)

\* a cycle whose tests fail has been scored over a persisted status that is
\* production ready: the bonus is in its illumination
C35_Witness ==
    /\ Len(sc_out) >= 1
    /\ sc_in[1].tr.failed > 0
    /\ PersistedReady(sc_in[1].sfile)
    /\ sc_out[1].illumination < IllumOne
    /\ sc_out[1].illumination = sc_metrics[1].overall_health + Pct(10)

\* ---- scorer: the diagnostics ----
\* the diagnostics of cycle i of a level about a region
DiagnosticsOf(i, level, region) ==
    {k \in 1..Len(sc_out[i].diagnostics) :
        /\ sc_out[i].diagnostics[k].level = level
        /\ sc_out[i].diagnostics[k].region = region}

\* 1 when the condition holds, else 0
Count(cond) == IF cond THEN 1 ELSE 0

\* C36: the diagnostics of a scored status are one Alert when tests fail,
\* one Caution when the coverage is under 50, one when the documentation
\* score is under 60, one when the integration score is under 30, and
\* nothing else
C36_DiagnosticsPerCondition ==
    \A i \in 1..Len(sc_out) :
        LET failing == sc_in[1].tr.failed > 0
            low_cov == sc_out[i].regions["tests"].coverage < 50
            low_doc == sc_out[i].regions["documentation"].coverage < 60
            low_int == sc_out[i].regions["api-integration"].coverage < 30
        IN /\ Cardinality(DiagnosticsOf(i, ALERT, "tests")) = Count(failing)
           /\ Cardinality(DiagnosticsOf(i, CAUTION, "tests")) = Count(low_cov)
           /\ Cardinality(DiagnosticsOf(i, CAUTION, "documentation"))
                = Count(low_doc)
           /\ Cardinality(DiagnosticsOf(i, CAUTION, "integration"))
                = Count(low_int)
           /\ Len(sc_out[i].diagnostics)
                = Count(failing) + Count(low_cov) + Count(low_doc)
                  + Count(low_int)

\* tests fail and the coverage is exactly 50: the Alert is the only
\* diagnostic of the status scored
C36_Witness ==
    /\ Len(sc_out) >= 1
    /\ sc_in[1].cov = 50
    /\ sc_in[1].tr.failed > 0
    /\ Len(sc_out[1].diagnostics) = 1

\* ---- watcher: restart ----
\* no event for the path has been observed since the current handler was
\* created
FirstSinceStart(path) ==
    \A k \in (lifecycle.events_before + 1)..Len(observed) :
        observed[k].path # path

\* C40: a start() that follows a stop() installs a handler with the default
\* ignore set and no debounce timestamps; an add or remove call made while
\* the watcher is not running changes nothing; on the new handler, before
\* any add or remove call, the first write of every file the default set
\* does not ignore is delivered
C40_FreshHandlerOnRestart ==
    [][ /\ lifecycle'.observers = lifecycle.observers + 1 =>
              /\ ignored_patterns' = DefaultIgnoredPatterns
              /\ last_event_time' = [p \in Paths |-> 0]
        /\ (observer = "stopped" /\ last_pattern_call' # last_pattern_call
               /\ lifecycle' = lifecycle) =>
              UNCHANGED <<observer, ignored_patterns, last_event_time,
                          observed, delivered>>
        /\ ( /\ Len(observed') = Len(observed) + 1
             /\ lifecycle.observers > 1
             /\ \A q \in MutablePatterns : last_pattern_call[q] = "none" ) =>
              LET ev == observed'[Len(observed')] IN
              ( /\ ev.path \notin Directories
                /\ ~should_ignore(ev.path, DefaultIgnoredPatterns)
                /\ FirstSinceStart(ev.path) ) =>
                  /\ Len(delivered') = Len(delivered) + 1
                  /\ SameEvent(delivered'[Len(delivered')], ev) ]_vars

\* "tests" was added to the ignore set and a write of tests/test_app.py was
\* not delivered; after stop() and start(), a write of the same file at
\* the same instant is delivered and the ignore set is the default one
C40_Witness ==
    /\ lifecycle.observers = 2
    /\ lifecycle.events_before = 1
    /\ Len(observed) = 2
    /\ \A i \in 1..2 : observed[i].path = TestPy /\ observed[i].at = StartTime
    /\ Len(delivered) = 1
    /\ delivered[1].file_path = TestPy
    /\ ignored_patterns = DefaultIgnoredPatterns
    /\ is_running

\* ---- metrics manager: no metric is lost ----
\* C38: whenever no flush is in progress, every metric accepted by
\* record_operation is in the queue or in a written batch: total_recorded
\* is total_persisted plus the size of the queue
C38_NoMetricLost ==
    ( /\ metrics_manager.worker \notin {"writing", "final_writing"}
      /\ metrics_manager.stop # "writing" )
    => metrics_manager.total_recorded
         = metrics_manager.total_persisted + metrics_manager.queue

====
